---- MODULE Spec2Model ----
(***************************************************************************)
(* Weather ingestion, alert evaluation and dashboard aggregation pipeline  *)
(* of backend/app (services, repositories, tasks and the class-based       *)
(* api/ variant).                                                          *)
(*                                                                         *)
(* Units.  Instants are minutes since an arbitrary UTC midnight.           *)
(* Temperatures (degrees C), humidity (%) and wind speed (m/s) are kept    *)
(* in tenths, so 36.5 degrees is 365 and the 35.0 degree threshold is 350. *)
(* An optional value (Python None or a value) is <<>> or <<v>>.            *)
(***************************************************************************)
EXTENDS Integers, Sequences, FiniteSets, TLC

VARIABLES
    now,            \* datetime.utcnow(), in minutes
    ticks,          \* number of clock advances so far (bounds the run)
    observations,   \* collection rawweatherdatas
    alerts,         \* collection alertlogs
    summaries,      \* collection dashboardsummaries
    nextId,         \* per collection, the next _id the store hands out
    ret,            \* the last dashboard or cleanup task run: what it returned and what it saw
    hist,           \* the last evaluation of the alert rules and the one before it
    evaluators,     \* concurrent check_and_create_alerts instances, one process each
    builders,       \* concurrent populate/generate dashboard instances, one process each
    messages,       \* Celery broker: the task messages sent and not yet executed
    runs,           \* the executions of task messages the workers completed
    fetchers        \* concurrent fetch_and_store_weather instances, one process each

vars == <<now, ticks, observations, alerts, summaries, nextId, ret, hist,
          evaluators, builders, messages, runs, fetchers>>

-----------------------------------------------------------------------------
(* Bounds of the model *)

MaxTicks == 1
MaxObs == 2
MaxTrendDays == 9       \* daily observations of a stored series
MaxTrendHours == 25     \* hourly observations of a stored series

(* Settings (infrastructure/config/settings.py) *)

ALERT_TEMP_HIGH == 350
ALERT_TEMP_LOW == 50
ALERT_HUMIDITY_HIGH == 800
ALERT_EXTREME_WEATHER == {"Storm", "Thunderstorm", "Tornado", "Hurricane"}
ALERT_COOLDOWN_MINUTES == 60
DATA_RETENTION_DAYS == 2
ALERT_RETENTION_DAYS == 30      \* the default of cleanup_old_alerts(days)
OPENWEATHER_CITY == "Pune"

(* Thresholds of the class-based variant (api/alerts/alert_service.py) *)

HIGH_TEMP_THRESHOLD == 350
LOW_TEMP_THRESHOLD == 100
HIGH_HUMIDITY_THRESHOLD == 850
EXTREME_WEATHER_TYPES == {"Thunderstorm", "Tornado", "Hurricane", "Blizzard"}

(* Retry options of the tasks (tasks/weather_tasks.py, tasks/dashboard_tasks.py); *)
(* countdowns are in seconds                                                    *)

FetchMaxRetries == 3            \* fetch_weather_data: max_retries
FetchDefaultRetryDelay == 60    \* fetch_weather_data: default_retry_delay
PopulateMaxRetries == 2         \* populate_dashboard_summary: max_retries
PopulateRetryCountdown == 120   \* populate_dashboard_summary: retry(countdown=120)
\* populate_dashboard_summary sets no default_retry_delay: Celery's own, 3 minutes
CeleryDefaultRetryDelay == 180

\* timedelta(hours=1) and timedelta(days=1), in minutes
MinutesPerHour == 60
MinutesPerDay == 1440

Cities == {"Pune", "Mumbai"}

\* AlertType members the evaluators use, in the order check_and_create_alerts runs them
RuleOrder == <<"HIGH_TEMPERATURE", "LOW_TEMPERATURE", "HIGH_HUMIDITY", "EXTREME_WEATHER">>
RuleTypes == {RuleOrder[i] : i \in 1..Len(RuleOrder)}

\* How far one clock advance moves utcnow(): inside the cooldown window, onto
\* its bound, and a minute past it
TickSteps == {30, 60, 61}

\* Clock advances of the aggregation specifications: an hour, a day, and a
\* minute more than the retention period
DayTickSteps == {60, 1440, 2881}

-----------------------------------------------------------------------------
(* Provider responses (the JSON body of GET /weather), reduced to the       *)
(* fields the pipeline reads.  sys is TRUE when the body carries            *)
(* sys.sunrise and sys.sunset.                                              *)

Response(name, temp, tmin, tmax, hum, pres, main, wind, sys) ==
    [name |-> name, temp |-> temp, temp_min |-> tmin, temp_max |-> tmax,
     humidity |-> hum, pressure |-> pres, weather_main |-> main,
     wind_speed |-> wind, sys |-> sys]

\* Scenario A of the specification: 36.5 degrees, 70 %, Clear
ScenarioA(name) == Response(name, 365, 350, 380, 700, 1013, "Clear", 35, TRUE)

\* A hot, humid thunderstorm: three rules trip on it
ScenarioStorm(name) == Response(name, 400, 390, 410, 900, 1002, "Thunderstorm", 120, TRUE)

\* The responses the stateful specifications draw from: the scheduled city
\* sees both scenarios, any other city the second
ResponsesFor(city) ==
    IF city = OPENWEATHER_CITY THEN {ScenarioA(city), ScenarioStorm(city)}
    ELSE {ScenarioStorm(city)}

\* The grid the rule specification draws from: every threshold, both sides of it
GridTemps == {-10, 0, 1, 49, 50, 200, 350, 351, 365, 399, 400}
GridHumidities == {700, 800, 801, 899, 900}
GridMains == {"Clear", "Rain", "Storm", "Thunderstorm"}

GridResponses(name) ==
    { Response(name, t, t, t, h, 1013, m, 35, TRUE) :
        t \in GridTemps, h \in GridHumidities, m \in GridMains }

-----------------------------------------------------------------------------
(* WeatherService.transform_api_response and WeatherRepository              *)

\* transform_api_response: the WeatherRaw document built from a response
\* whose dt is the instant dt
TransformApiResponse(r, dt, t) ==
    [city |-> r.name,
     timestamp |-> dt,
     temperature |-> [current |-> r.temp, min |-> r.temp_min, max |-> r.temp_max],
     humidity |-> r.humidity,
     pressure |-> r.pressure,
     weather |-> [main |-> r.weather_main],
     wind |-> [speed |-> r.wind_speed],
     sunrise |-> IF r.sys THEN <<dt - (dt % MinutesPerDay) + 360>> ELSE <<>>,
     created_at |-> t,
     is_deleted |-> FALSE]

\* insert_weather_data: insert_one gives the document its _id
InsertWeatherData(store, doc, id) == store \cup {[id |-> id] @@ doc}

\* A JSON value of a provider body, where the pipeline expects a number: the
\* key is absent, or it holds a number, null, a string that is no numeral
\* ("text"), a string that is one ("numeral": "150"), a list, or an object
\* with the one member `all`
Json(kind, v) == [kind |-> kind, v |-> v]

\* dict.get(key, default): the default stands in for an absent key only
Get(value, default) == IF value.kind = "absent" THEN Json("number", default) ELSE value

\* safe_float(value): float(value), or 0.0 on ValueError or TypeError; float
\* reads a numeral
SafeFloat(value) ==
    IF value.kind \in {"number", "numeral"} THEN value.v ELSE 0

\* safe_int(value): int(value), or 0 on ValueError or TypeError (the numbers
\* and numerals of the model are whole)
SafeInt(value) ==
    IF value.kind \in {"number", "numeral"} THEN value.v ELSE 0

\* A provider body whose main.temp, main.humidity, main.pressure and clouds
\* are JSON values; the other fields are those of scenario A
Body(name, temp, humidity, pressure, clouds) ==
    [name |-> name, temp |-> temp, humidity |-> humidity, pressure |-> pressure,
     clouds |-> clouds]

\* api_data.get("clouds", {}).get("all", 0) raises AttributeError unless
\* clouds is absent or an object
CloudsRaises(clouds) == clouds.kind \notin {"absent", "object"}

\* WeatherRaw(...): the Field constraints (humidity ge=0, le=100) hold
WeatherRawValid(doc) == doc.humidity >= 0 /\ doc.humidity <= 1000

\* transform_api_response on such a body: the document, or raised when the
\* read of clouds raises or WeatherRaw(...) fails validation (the method logs
\* and re-raises)
TransformBody(api_data, dt, t) ==
    LET a == ScenarioA(api_data.name)
        r == [a EXCEPT !.temp = SafeFloat(Get(api_data.temp, 0)),
                       !.humidity = SafeFloat(Get(api_data.humidity, 0)),
                       !.pressure = SafeInt(Get(api_data.pressure, 0))]
        doc == TransformApiResponse(r, dt, t) IN
    IF CloudsRaises(api_data.clouds) \/ ~ WeatherRawValid(doc)
    THEN [raised |-> TRUE, doc |-> <<>>]
    ELSE [raised |-> FALSE, doc |-> <<doc>>]

\* A get_latest_weather that forgets the is_deleted filter
GetLatestWeatherAnyRecord(store, city) ==
    LET rows == {o \in store : o.city = city} IN
    {o \in rows : \A p \in rows : p.timestamp <= o.timestamp}

\* get_latest_weather: find_one({city, is_deleted: False}, sort timestamp desc).
\* The result is the set of documents the store may return (empty: None);
\* documents with equal timestamps are returned in no specified order.
GetLatestWeather(store, city) ==
    LET live == {o \in store : o.city = city /\ o.is_deleted = FALSE} IN
    {o \in live : \A p \in live : p.timestamp <= o.timestamp}

\* A range read that forgets the is_deleted filter
GetWeatherByTimeRangeAnyRecord(store, city, start_time, end_time) ==
    {o \in store : /\ o.city = city
                   /\ o.timestamp >= start_time /\ o.timestamp <= end_time}

\* get_weather_by_time_range: find({city, start <= timestamp <= end, is_deleted: False})
GetWeatherByTimeRange(store, city, start_time, end_time) ==
    {o \in store : /\ o.city = city
                   /\ o.timestamp >= start_time /\ o.timestamp <= end_time
                   /\ o.is_deleted = FALSE}

\* get_weather_last_n_hours
GetWeatherLastNHours(store, city, hours, t) ==
    GetWeatherByTimeRange(store, city, t - hours * MinutesPerHour, t)

\* A soft delete that matches the soft-deleted records again
SoftDeleteOldRecordsCountingDeleted(store, days, t) ==
    LET cutoff_date == t - days * MinutesPerDay
        hit == {o \in store : o.timestamp < cutoff_date} IN
    [store |-> (store \ hit) \cup {[o EXCEPT !.is_deleted = TRUE] : o \in hit},
     count |-> Cardinality(hit)]

\* A soft delete whose cutoff is inclusive
SoftDeleteOldRecordsUpToCutoff(store, days, t) ==
    LET cutoff_date == t - days * MinutesPerDay
        hit == {o \in store : o.timestamp <= cutoff_date /\ o.is_deleted = FALSE} IN
    [store |-> (store \ hit) \cup {[o EXCEPT !.is_deleted = TRUE] : o \in hit},
     count |-> Cardinality(hit)]

\* A soft delete that flips the flag of every old record
SoftDeleteOldRecordsFlipping(store, days, t) ==
    LET cutoff_date == t - days * MinutesPerDay
        hit == {o \in store : o.timestamp < cutoff_date} IN
    [store |-> (store \ hit) \cup {[o EXCEPT !.is_deleted = ~ o.is_deleted] : o \in hit},
     count |-> Cardinality({o \in hit : o.is_deleted = FALSE})]

\* soft_delete_old_records: update_many({timestamp < cutoff, is_deleted: False})
SoftDeleteOldRecords(store, days, t) ==
    LET cutoff_date == t - days * MinutesPerDay
        hit == {o \in store : o.timestamp < cutoff_date /\ o.is_deleted = FALSE} IN
    [store |-> (store \ hit) \cup {[o EXCEPT !.is_deleted = TRUE] : o \in hit},
     count |-> Cardinality(hit)]

\* A hard delete that removes only what was soft-deleted before
HardDeleteOldRecordsSoftDeletedOnly(store, days, t) ==
    LET cutoff_date == t - days * MinutesPerDay
        hit == {o \in store : o.timestamp < cutoff_date /\ o.is_deleted = TRUE} IN
    [store |-> store \ hit, count |-> Cardinality(hit)]

\* hard_delete_old_records: delete_many({timestamp < cutoff})
HardDeleteOldRecords(store, days, t) ==
    LET cutoff_date == t - days * MinutesPerDay
        hit == {o \in store : o.timestamp < cutoff_date} IN
    [store |-> store \ hit, count |-> Cardinality(hit)]

-----------------------------------------------------------------------------
(* AlertRepository and AlertService (services/alert_service.py)             *)

\* A check_recent_similar_alert whose bound is exclusive
CheckRecentSimilarAlertAfterCutoff(store, city, alert_type, minutes, t) ==
    LET cutoff_time == t - minutes IN
    Cardinality({a \in store : /\ a.city = city
                               /\ a.alert_type = alert_type
                               /\ a.triggered_at > cutoff_time}) > 0

\* A check_recent_similar_alert that filters on the city alone
CheckRecentSimilarAlertAnyType(store, city, alert_type, minutes, t) ==
    LET cutoff_time == t - minutes IN
    Cardinality({a \in store : /\ a.city = city
                               /\ a.triggered_at >= cutoff_time}) > 0

\* A check_recent_similar_alert that filters on the type alone
CheckRecentSimilarAlertAnyCity(store, city, alert_type, minutes, t) ==
    LET cutoff_time == t - minutes IN
    Cardinality({a \in store : /\ a.alert_type = alert_type
                               /\ a.triggered_at >= cutoff_time}) > 0

\* A check_recent_similar_alert that counts the active alerts only
CheckRecentSimilarAlertUnacknowledged(store, city, alert_type, minutes, t) ==
    LET cutoff_time == t - minutes IN
    Cardinality({a \in store : /\ a.city = city
                               /\ a.alert_type = alert_type
                               /\ a.is_acknowledged = FALSE
                               /\ a.triggered_at >= cutoff_time}) > 0

\* check_recent_similar_alert: count_documents({city, alert_type, triggered_at >= cutoff}) > 0
CheckRecentSimilarAlert(store, city, alert_type, minutes, t) ==
    LET cutoff_time == t - minutes IN
    Cardinality({a \in store : /\ a.city = city
                               /\ a.alert_type = alert_type
                               /\ a.triggered_at >= cutoff_time}) > 0

\* insert_alert: insert_one gives the document its _id
InsertAlert(store, alert, id) == store \cup {[id |-> id] @@ alert}

\* delete_old_alerts: delete_many({triggered_at < cutoff})
DeleteOldAlerts(store, days, t) ==
    LET cutoff_date == t - days * MinutesPerDay
        hit == {a \in store : a.triggered_at < cutoff_date} IN
    [store |-> store \ hit, count |-> Cardinality(hit)]

\* acknowledge_alert: update_one({_id}, $set {is_acknowledged, acknowledged_at});
\* modified_count counts the document only when the $set changed it
AcknowledgeAlertById(store, alert_id, t) ==
    LET hit == {a \in store : a.id = alert_id}
        set(a) == [a EXCEPT !.is_acknowledged = TRUE, !.acknowledged_at = <<t>>] IN
    [store |-> (store \ hit) \cup {set(a) : a \in hit},
     modified_count |-> Cardinality({a \in hit : set(a) # a})]

\* ObjectId(alert_id): the ids the store hands out are ObjectIds (the model
\* counts them from 1); 0 stands for a string that is not one, for which
\* ObjectId raises InvalidId
IsObjectId(alert_id) == alert_id >= 1

\* The users an acknowledgement names ("system" is the default)
Users == {"system", "ops"}

\* The document after $set {acknowledged_by: user}: the field is added when
\* the document has none
SetAcknowledgedBy(a, user) ==
    [f \in DOMAIN a \cup {"acknowledged_by"} |->
        IF f = "acknowledged_by" THEN user ELSE a[f]]

\* acknowledged_by of a stored alert (<<>>: the document has no such field)
AcknowledgedBy(a) ==
    IF "acknowledged_by" \in DOMAIN a THEN <<a.acknowledged_by>> ELSE <<>>

\* acknowledge_alert of the class-based AlertRepository: BaseRepository.update_one
\* ({_id}, $set {is_acknowledged, acknowledged_by, acknowledged_at}), which
\* returns modified_count > 0
BoundaryAcknowledgeAlertById(store, alert_id, user, t) ==
    LET hit == {a \in store : a.id = alert_id}
        set(a) == SetAcknowledgedBy([a EXCEPT !.is_acknowledged = TRUE,
                                              !.acknowledged_at = <<t>>], user) IN
    [store |-> (store \ hit) \cup {set(a) : a \in hit},
     modified_count |-> Cardinality({a \in hit : set(a) # a})]

\* AlertLog(...): is_acknowledged and acknowledged_at take their defaults,
\* triggered_at its default_factory datetime.utcnow
AlertLog(city, alert_type, severity, condition, metadata, t) ==
    [city |-> city, alert_type |-> alert_type, severity |-> severity,
     triggered_at |-> t, condition |-> condition,
     is_acknowledged |-> FALSE, acknowledged_at |-> <<>>, metadata |-> metadata]

\* Trip conditions that also fire on the threshold itself
TripsAtThreshold(rule, w) ==
    CASE rule = "HIGH_TEMPERATURE" -> w.temperature.current >= ALERT_TEMP_HIGH
      [] rule = "LOW_TEMPERATURE"  -> w.temperature.current <= ALERT_TEMP_LOW
      [] rule = "HIGH_HUMIDITY"    -> w.humidity >= ALERT_HUMIDITY_HIGH
      [] rule = "EXTREME_WEATHER"  -> w.weather.main \in ALERT_EXTREME_WEATHER

\* The trip condition of each rule, as the _check_* methods test it
Trips(rule, w) ==
    CASE rule = "HIGH_TEMPERATURE" -> w.temperature.current > ALERT_TEMP_HIGH
      [] rule = "LOW_TEMPERATURE"  -> w.temperature.current < ALERT_TEMP_LOW
      [] rule = "HIGH_HUMIDITY"    -> w.humidity > ALERT_HUMIDITY_HIGH
      [] rule = "EXTREME_WEATHER"  -> w.weather.main \in ALERT_EXTREME_WEATHER

\* A high-temperature severity whose warning band includes threshold + 5
HighTemperatureSeverityUpTo(temp_current, threshold) ==
    IF temp_current <= threshold + 50 THEN "warning" ELSE "critical"

HighTemperatureSeverity(temp_current, threshold) ==
    IF temp_current < threshold + 50 THEN "warning" ELSE "critical"

LowTemperatureSeverity(temp_current, threshold) ==
    IF temp_current > threshold - 50 THEN "warning" ELSE "critical"

HighHumiditySeverity(humidity, threshold) ==
    IF humidity < threshold + 100 THEN "info" ELSE "warning"

\* Each _check_* returns <<>> (None) or <<alert>>, the document it inserts
CheckHighTemperature(store, city, w, t) ==
    LET temp_current == w.temperature.current
        threshold == ALERT_TEMP_HIGH IN
    IF Trips("HIGH_TEMPERATURE", w)
    THEN IF CheckRecentSimilarAlert(store, city, "HIGH_TEMPERATURE", ALERT_COOLDOWN_MINUTES, t)
         THEN <<>>
         ELSE << AlertLog(city, "HIGH_TEMPERATURE",
                          HighTemperatureSeverity(temp_current, threshold),
                          [threshold_type |-> "temperature", threshold_value |-> threshold,
                           actual_value |-> temp_current, operator |-> ">"],
                          [temperature |-> temp_current, humidity |-> w.humidity,
                           weather_main |-> w.weather.main], t) >>
    ELSE <<>>

CheckLowTemperature(store, city, w, t) ==
    LET temp_current == w.temperature.current
        threshold == ALERT_TEMP_LOW IN
    IF Trips("LOW_TEMPERATURE", w)
    THEN IF CheckRecentSimilarAlert(store, city, "LOW_TEMPERATURE", ALERT_COOLDOWN_MINUTES, t)
         THEN <<>>
         ELSE << AlertLog(city, "LOW_TEMPERATURE",
                          LowTemperatureSeverity(temp_current, threshold),
                          [threshold_type |-> "temperature", threshold_value |-> threshold,
                           actual_value |-> temp_current, operator |-> "<"],
                          [temperature |-> temp_current, humidity |-> w.humidity,
                           weather_main |-> w.weather.main], t) >>
    ELSE <<>>

CheckHighHumidity(store, city, w, t) ==
    LET humidity == w.humidity
        threshold == ALERT_HUMIDITY_HIGH IN
    IF Trips("HIGH_HUMIDITY", w)
    THEN IF CheckRecentSimilarAlert(store, city, "HIGH_HUMIDITY", ALERT_COOLDOWN_MINUTES, t)
         THEN <<>>
         ELSE << AlertLog(city, "HIGH_HUMIDITY",
                          HighHumiditySeverity(humidity, threshold),
                          [threshold_type |-> "humidity", threshold_value |-> threshold,
                           actual_value |-> humidity, operator |-> ">"],
                          [humidity |-> humidity, temperature |-> w.temperature.current,
                           weather_main |-> w.weather.main], t) >>
    ELSE <<>>

CheckExtremeWeather(store, city, w, t) ==
    LET weather_main == w.weather.main IN
    IF Trips("EXTREME_WEATHER", w)
    THEN IF CheckRecentSimilarAlert(store, city, "EXTREME_WEATHER", ALERT_COOLDOWN_MINUTES, t)
         THEN <<>>
         ELSE << AlertLog(city, "EXTREME_WEATHER", "critical",
                          [threshold_type |-> "weather_condition", threshold_value |-> 0,
                           actual_value |-> 0, operator |-> "in"],
                          [weather_main |-> weather_main,
                           temperature |-> w.temperature.current,
                           wind_speed |-> w.wind.speed], t) >>
    ELSE <<>>

CheckRule(rule, store, city, w, t) ==
    CASE rule = "HIGH_TEMPERATURE" -> CheckHighTemperature(store, city, w, t)
      [] rule = "LOW_TEMPERATURE"  -> CheckLowTemperature(store, city, w, t)
      [] rule = "HIGH_HUMIDITY"    -> CheckHighHumidity(store, city, w, t)
      [] rule = "EXTREME_WEATHER"  -> CheckExtremeWeather(store, city, w, t)

\* The body of check_and_create_alerts after the latest document was read:
\* the four checks in order, each seeing the inserts of the ones before it.
RECURSIVE RunChecks(_, _, _, _, _, _, _)
RunChecks(i, store, created_alert_ids, city, w, t, id) ==
    IF i > Len(RuleOrder)
    THEN [alerts |-> store, ids |-> created_alert_ids]
    ELSE LET alert == CheckRule(RuleOrder[i], store, city, w, t) IN
         IF alert = <<>>
         THEN RunChecks(i + 1, store, created_alert_ids, city, w, t, id)
         ELSE RunChecks(i + 1, InsertAlert(store, alert[1], id),
                        Append(created_alert_ids, id), city, w, t, id + 1)

\* What may go wrong in the evaluation of one rule: the cooldown query
\* (check_recent_similar_alert raises) or the insert (insert_alert raises)
RuleFailures == {"cooldown", "insert"}

\* One _check_* when the store call `failed` raises.  The try block is left at
\* the call that raises, the except logs, and the method returns None; a call
\* the method does not reach cannot fail it.
CheckRuleOrFail(rule, store, city, w, t, failed) ==
    IF Trips(rule, w)
    THEN IF failed = "cooldown" THEN <<>>
         ELSE IF CheckRecentSimilarAlert(store, city, rule, ALERT_COOLDOWN_MINUTES, t)
              THEN <<>>
              ELSE IF failed = "insert" THEN <<>>
                   ELSE CheckRule(rule, store, city, w, t)
    ELSE <<>>

\* An evaluation that gives up at the first rule whose store call raises
RECURSIVE RunChecksUntilFailure(_, _, _, _, _, _, _, _)
RunChecksUntilFailure(i, store, created_alert_ids, city, w, t, id, failed) ==
    IF i > Len(RuleOrder)
    THEN [alerts |-> store, ids |-> created_alert_ids]
    ELSE IF failed[RuleOrder[i]] # "none" /\ Trips(RuleOrder[i], w)
         THEN [alerts |-> store, ids |-> <<>>]
         ELSE LET alert == CheckRuleOrFail(RuleOrder[i], store, city, w, t, "none") IN
              IF alert = <<>>
              THEN RunChecksUntilFailure(i + 1, store, created_alert_ids, city, w, t, id, failed)
              ELSE RunChecksUntilFailure(i + 1, InsertAlert(store, alert[1], id),
                                         Append(created_alert_ids, id), city, w, t, id + 1,
                                         failed)

\* The body of check_and_create_alerts when the store calls of the rules may
\* raise: failed[rule] names the call of that rule that does ("none": neither)
RECURSIVE RunChecksWithFailures(_, _, _, _, _, _, _, _)
RunChecksWithFailures(i, store, created_alert_ids, city, w, t, id, failed) ==
    IF i > Len(RuleOrder)
    THEN [alerts |-> store, ids |-> created_alert_ids]
    ELSE LET alert == CheckRuleOrFail(RuleOrder[i], store, city, w, t, failed[RuleOrder[i]]) IN
         IF alert = <<>>
         THEN RunChecksWithFailures(i + 1, store, created_alert_ids, city, w, t, id, failed)
         ELSE RunChecksWithFailures(i + 1, InsertAlert(store, alert[1], id),
                                    Append(created_alert_ids, id), city, w, t, id + 1,
                                    failed)

-----------------------------------------------------------------------------
(* The class-based variant behind AlertController.trigger_alert_check       *)
(* (api/alerts/alert_service.py, api/weather/weather_repository.py,         *)
(* common/base_repository.py)                                               *)

\* The parameters BaseRepository.find_one(self, filter_dict) accepts
FindOneParameters == {"filter_dict"}

\* The required fields of models.alert.AlertCondition
AlertConditionRequired == {"threshold_type", "threshold_value", "actual_value", "operator"}

\* WeatherRepository.get_latest_weather of the class-based variant: it calls
\* self.find_one(filter_dict=..., sort=...); a keyword find_one does not
\* accept is a TypeError, which get_latest_weather logs and re-raises.
BoundaryGetLatestWeather(store, city) ==
    LET keywords == {"filter_dict", "sort"} IN
    IF keywords \subseteq FindOneParameters
    THEN [raised |-> FALSE, documents |-> GetLatestWeather(store, city)]
    ELSE [raised |-> TRUE, documents |-> {}]

\* The trip conditions of the class-based _check_* methods
BoundaryTrips(rule, w) ==
    CASE rule = "HIGH_TEMPERATURE" -> w.temperature.current >= HIGH_TEMP_THRESHOLD
      [] rule = "LOW_TEMPERATURE"  -> w.temperature.current <= LOW_TEMP_THRESHOLD
      [] rule = "HIGH_HUMIDITY"    -> w.humidity >= HIGH_HUMIDITY_THRESHOLD
      [] rule = "EXTREME_WEATHER"  -> w.weather.main \in EXTREME_WEATHER_TYPES

\* Their severities, which are fixed per rule
BoundarySeverity(rule) ==
    CASE rule = "HIGH_TEMPERATURE" -> "warning"
      [] rule = "LOW_TEMPERATURE"  -> "info"
      [] rule = "HIGH_HUMIDITY"    -> "info"
      [] rule = "EXTREME_WEATHER"  -> "critical"

\* The keywords they pass to AlertCondition(...)
BoundaryConditionKeywords(rule) ==
    IF rule = "EXTREME_WEATHER"
    THEN {"metric", "threshold", "actual_value", "operator", "description"}
    ELSE {"metric", "threshold", "actual_value", "operator"}

\* One class-based _check_*: no cooldown query; AlertCondition(...) without a
\* required field is a ValidationError, which the method logs, returning None
BoundaryCheckRule(rule, city, w, t) ==
    IF BoundaryTrips(rule, w)
    THEN IF AlertConditionRequired \subseteq BoundaryConditionKeywords(rule)
         THEN << AlertLog(city, rule, BoundarySeverity(rule),
                          [actual_value |-> IF rule = "EXTREME_WEATHER" THEN 0
                                            ELSE IF rule = "HIGH_HUMIDITY" THEN w.humidity
                                            ELSE w.temperature.current],
                          [temperature |-> w.temperature.current, humidity |-> w.humidity], t) >>
         ELSE <<>>
    ELSE <<>>

RECURSIVE BoundaryRunChecks(_, _, _, _, _, _, _)
BoundaryRunChecks(i, store, created_alert_ids, city, w, t, id) ==
    IF i > Len(RuleOrder)
    THEN [alerts |-> store, ids |-> created_alert_ids]
    ELSE LET alert == BoundaryCheckRule(RuleOrder[i], city, w, t) IN
         IF alert = <<>>
         THEN BoundaryRunChecks(i + 1, store, created_alert_ids, city, w, t, id)
         ELSE BoundaryRunChecks(i + 1, InsertAlert(store, alert[1], id),
                                Append(created_alert_ids, id), city, w, t, id + 1)

-----------------------------------------------------------------------------
(* Bookkeeping of the evaluations, for the properties below *)

\* One evaluation: which variant ran for which city and when, the latest
\* non-deleted documents of the city in the store at that moment, the document
\* the evaluation read (<<>>: none), the first _id it could insert under (the
\* alerts of this and of later evaluations have _id >= id0), and the ids it
\* returned
Call(variant, city, t, latest, weather, id, ids) ==
    [variant |-> variant, city |-> city, at |-> t, latest |-> latest,
     weather |-> weather, id0 |-> id, ids |-> ids]

\* The evaluation and, when it was of the same variant for the same city, the
\* one before it
Evaluation(h, call) ==
    << [last |-> call,
        prev |-> IF h = <<>> \/ h[1].last.city # call.city
                             \/ h[1].last.variant # call.variant
                 THEN <<>> ELSE <<h[1].last>>] >>

-----------------------------------------------------------------------------
(* Arithmetic of the aggregations: a mean is kept as the pair of its sum    *)
(* and its count until it is rounded                                        *)

RECURSIVE SumOver(_, _)
SumOver(f, D) ==
    IF D = {} THEN 0
    ELSE LET x == CHOOSE y \in D : TRUE IN f[x] + SumOver(f, D \ {x})

MinOf(S) == CHOOSE x \in S : \A y \in S : x <= y
MaxOf(S) == CHOOSE x \in S : \A y \in S : x >= y

\* round(sum / n, 1) on values kept in tenths: to the nearest tenth, a value
\* half-way between two tenths to the even one
Round1(sum, n) ==
    LET q == sum \div n
        r == sum % n IN
    IF 2 * r < n THEN q
    ELSE IF 2 * r > n THEN q + 1
    ELSE IF q % 2 = 0 THEN q ELSE q + 1

\* safe_int(sum / n): int() of a float drops the fraction
SafeIntOfMean(sum, n) ==
    IF sum >= 0 THEN sum \div n ELSE -((-sum) \div n)

\* max(set(weather_conditions), key=weather_conditions.count): the most
\* common condition; among equally common ones, the one the iteration over
\* the set meets first, which `order` (a ranking of the conditions) stands for
MostCommonWeather(rows, order) ==
    LET conds == {o.weather.main : o \in rows}
        count(c) == Cardinality({o \in rows : o.weather.main = c})
        best == {c \in conds : \A d \in conds : count(d) <= count(c)} IN
    CHOOSE c \in best : \A d \in best : order[c] <= order[d]

\* The conditions of the scenarios, and their rankings
Conditions == {"Clear", "Thunderstorm"}
ConditionOrders ==
    {order \in [Conditions -> 1..Cardinality(Conditions)] :
        \A c, d \in Conditions : c # d => order[c] # order[d]}

\* A selection of the newest groups that keeps them all
NewestUnbounded(K, n) == K

\* The n largest elements of a set of integers
RECURSIVE Newest(_, _)
Newest(K, n) ==
    IF n = 0 \/ K = {} THEN {}
    ELSE {MaxOf(K)} \cup Newest(K \ {MaxOf(K)}, n - 1)

\* A set of integers as a sequence, smallest first
RECURSIVE Ascending(_)
Ascending(K) ==
    IF K = {} THEN <<>>
    ELSE <<MinOf(K)>> \o Ascending(K \ {MinOf(K)})

-----------------------------------------------------------------------------
(* WeatherRepository aggregations and DashboardService                      *)

\* get_weather_stats: $match {city, start <= timestamp <= end, is_deleted: False},
\* $group _id None; <<>> is the empty dict of no matching row
GetWeatherStats(store, city, start_time, end_time) ==
    LET rows == GetWeatherByTimeRange(store, city, start_time, end_time)
        n == Cardinality(rows) IN
    IF rows = {} THEN <<>>
    ELSE << [temp_avg |-> <<SumOver([o \in rows |-> o.temperature.current], rows), n>>,
             temp_min |-> MinOf({o.temperature.min : o \in rows}),
             temp_max |-> MaxOf({o.temperature.max : o \in rows}),
             humidity_avg |-> <<SumOver([o \in rows |-> o.humidity], rows), n>>,
             humidity_min |-> MinOf({o.humidity : o \in rows}),
             humidity_max |-> MaxOf({o.humidity : o \in rows}),
             pressure_avg |-> <<SumOver([o \in rows |-> o.pressure], rows), n>>,
             wind_speed_avg |-> <<SumOver([o \in rows |-> o.wind.speed], rows), n>>,
             count |-> n] >>

\* get_weather_distribution: $match {city, timestamp >= cutoff, is_deleted: False},
\* $group by weather.main; the dict condition -> count
GetWeatherDistribution(store, city, hours, t) ==
    LET cutoff_time == t - hours * MinutesPerHour
        rows == {o \in store : /\ o.city = city
                               /\ o.timestamp >= cutoff_time
                               /\ o.is_deleted = FALSE} IN
    [c \in {o.weather.main : o \in rows} |->
        Cardinality({o \in rows : o.weather.main = c})]

\* CurrentWeather(...) validates: sunrise and sunset are datetime fields, and
\* the document of a response without sys carries None for them
CurrentWeatherValid(weather_doc) == weather_doc.sunrise # <<>>

\* _build_current_weather
BuildCurrentWeather(weather_doc) ==
    [temperature |-> weather_doc.temperature.current,
     humidity |-> weather_doc.humidity,
     pressure |-> weather_doc.pressure,
     weather_main |-> weather_doc.weather.main,
     wind_speed |-> weather_doc.wind.speed,
     sunrise |-> weather_doc.sunrise]

\* The TodayStats both the no-data branch and the except branch return
ZeroTodayStats ==
    [temp_avg |-> 0, temp_min |-> 0, temp_max |-> 0,
     humidity_avg |-> 0, humidity_min |-> 0, humidity_max |-> 0,
     pressure_avg |-> 0, wind_speed_avg |-> 0, records_count |-> 0]

\* _generate_today_stats; failed: get_weather_stats raised
GenerateTodayStats(store, city, t, failed) ==
    LET today_start == t - (t % MinutesPerDay)
        today_end == today_start + MinutesPerDay
        stats == GetWeatherStats(store, city, today_start, today_end) IN
    IF failed \/ stats = <<>> THEN ZeroTodayStats
    ELSE [temp_avg |-> Round1(stats[1].temp_avg[1], stats[1].temp_avg[2]),
          temp_min |-> stats[1].temp_min,
          temp_max |-> stats[1].temp_max,
          humidity_avg |-> Round1(stats[1].humidity_avg[1], stats[1].humidity_avg[2]),
          humidity_min |-> stats[1].humidity_min,
          humidity_max |-> stats[1].humidity_max,
          pressure_avg |-> SafeIntOfMean(stats[1].pressure_avg[1], stats[1].pressure_avg[2]),
          wind_speed_avg |-> Round1(stats[1].wind_speed_avg[1], stats[1].wind_speed_avg[2]),
          records_count |-> stats[1].count]

\* An hour key that rounds to the nearest hour
HourKeyNearest(timestamp) ==
    ((timestamp + MinutesPerHour \div 2) \div MinutesPerHour) * MinutesPerHour

\* timestamp.replace(minute=0, second=0, microsecond=0)
HourKey(timestamp) == timestamp - (timestamp % MinutesPerHour)

\* timestamp.strftime("%Y-%m-%d"), as the number of the day
DateKey(timestamp) == timestamp \div MinutesPerDay

\* The HourlyTrend of one hour's records
HourlyTrend(hour, records, order) ==
    [hour |-> hour,
     temperature |-> Round1(SumOver([o \in records |-> o.temperature.current], records),
                            Cardinality(records)),
     humidity |-> Round1(SumOver([o \in records |-> o.humidity], records),
                         Cardinality(records)),
     weather_main |-> MostCommonWeather(records, order),
     wind_speed |-> Round1(SumOver([o \in records |-> o.wind.speed], records),
                           Cardinality(records))]

\* The DailyTrend of one date's records
DailyTrend(date, records, order) ==
    [date |-> date,
     temp_avg |-> Round1(SumOver([o \in records |-> o.temperature.current], records),
                         Cardinality(records)),
     temp_min |-> MinOf({o.temperature.min : o \in records}),
     temp_max |-> MaxOf({o.temperature.max : o \in records}),
     humidity_avg |-> Round1(SumOver([o \in records |-> o.humidity], records),
                             Cardinality(records)),
     weather_main |-> MostCommonWeather(records, order),
     records_count |-> Cardinality(records)]

\* The trends of the groups with the given keys, in the order of the keys
RECURSIVE HourlyTrends(_, _, _)
HourlyTrends(keys, weather_data, order) ==
    IF keys = <<>> THEN <<>>
    ELSE <<HourlyTrend(Head(keys),
                       {o \in weather_data : HourKey(o.timestamp) = Head(keys)}, order)>>
         \o HourlyTrends(Tail(keys), weather_data, order)

RECURSIVE DailyTrends(_, _, _)
DailyTrends(keys, weather_data, order) ==
    IF keys = <<>> THEN <<>>
    ELSE <<DailyTrend(Head(keys),
                      {o \in weather_data : DateKey(o.timestamp) = Head(keys)}, order)>>
         \o DailyTrends(Tail(keys), weather_data, order)

\* _generate_hourly_trend: the records of the last `hours` hours grouped by
\* hour, the 24 newest groups, oldest first; failed: the read raised
GenerateHourlyTrend(store, city, hours, t, order, failed) ==
    LET weather_data == GetWeatherLastNHours(store, city, hours, t) IN
    IF failed THEN <<>>
    ELSE HourlyTrends(Ascending(Newest({HourKey(o.timestamp) : o \in weather_data}, 24)),
                      weather_data, order)

\* _generate_daily_trend: the records of the last `days` days grouped by
\* date, the `days` newest groups, oldest first; failed: the read raised
GenerateDailyTrend(store, city, days, t, order, failed) ==
    LET end_time == t
        start_time == end_time - days * MinutesPerDay
        weather_data == GetWeatherByTimeRange(store, city, start_time, end_time) IN
    IF failed THEN <<>>
    ELSE DailyTrends(Ascending(Newest({DateKey(o.timestamp) : o \in weather_data}, days)),
                     weather_data, order)

\* The store reads of one build, each of which may fail (a store error)
Reads == {"latest", "today", "hourly", "daily", "distribution"}

\* generate_dashboard_summary once get_latest_weather returned weather_doc (or
\* raised): <<>> is None.  `failed` is the read that raises, or "none".
GenerateDashboardSummary(store, city, latest_weather, t, order, failed) ==
    IF failed = "latest" \/ latest_weather = <<>> THEN <<>>
    ELSE IF ~ CurrentWeatherValid(latest_weather[1]) THEN <<>>
    ELSE IF failed = "distribution" THEN <<>>
    ELSE << [city |-> city,
             summary_type |-> "hourly",
             generated_at |-> t,
             current_weather |-> BuildCurrentWeather(latest_weather[1]),
             today_stats |-> GenerateTodayStats(store, city, t, failed = "today"),
             hourly_trend |-> GenerateHourlyTrend(store, city, 24, t, order, failed = "hourly"),
             daily_trend |-> GenerateDailyTrend(store, city, 7, t, order, failed = "daily"),
             weather_distribution |-> GetWeatherDistribution(store, city, 24, t)] >>

-----------------------------------------------------------------------------
(* DashboardRepository.upsert_summary and the indexes of DatabaseManager    *)

\* The documents replace_one's filter {city, summary_type} matches
UpsertMatches(store, document) ==
    {s \in store : s.city = document.city /\ s.summary_type = document.summary_type}

\* The unique index of the collection: (city, generated_at)
UniqueIndexHolds(store) ==
    \A s, u \in store : (s.city = u.city /\ s.generated_at = u.generated_at) => s.id = u.id

\* A write that adds the new document next to the one it should replace
ReplaceOneKeepingOld(store, target, document, id) ==
    store \cup {[id |-> id] @@ document}

\* The write of replace_one(filter, document, upsert=True) once the filter
\* was matched: the matched document `target` (<<>>: none) is replaced as a
\* whole, keeping its _id; with no match the document is inserted
ReplaceOne(store, target, document, id) ==
    IF target = <<>>
    THEN store \cup {[id |-> id] @@ document}
    ELSE (store \ {s \in store : s.id = target[1]}) \cup {[id |-> target[1]] @@ document}

-----------------------------------------------------------------------------
(* Initial state *)

Procs == {1, 2}

IdleEvaluator ==
    [pc |-> "idle", city |-> "", weather |-> <<>>, i |-> 0, ids |-> <<>>, alert |-> <<>>]

\* A fetch_and_store_weather instance that is not running; `wrote` keeps the
\* request of its last run and the document it inserted
IdleFetcher == [pc |-> "idle", city |-> "", weather_raw |-> <<>>, wrote |-> <<>>]

IdleBuilder == [pc |-> "idle", summary |-> <<>>, target |-> <<>>]

Init ==
    /\ now = 0
    /\ ticks = 0
    /\ observations = {}
    /\ alerts = {}
    /\ summaries = {}
    /\ nextId = [observations |-> 1, alerts |-> 1, summaries |-> 1]
    /\ ret = [op |-> "none"]
    /\ hist = <<>>
    /\ evaluators = [p \in Procs |-> IdleEvaluator]
    /\ builders = [p \in Procs |-> IdleBuilder]
    /\ messages = {}
    /\ runs = {}
    /\ fetchers = [p \in Procs |-> IdleFetcher]

\* One observation of the scheduled city, drawn from the grid, already stored
InitRules ==
    /\ now = 0
    /\ ticks = 0
    /\ \E r \in GridResponses(OPENWEATHER_CITY) :
          observations = InsertWeatherData({}, TransformApiResponse(r, 0, 0), 1)
    /\ alerts = {}
    /\ summaries = {}
    /\ nextId = [observations |-> 2, alerts |-> 1, summaries |-> 1]
    /\ ret = [op |-> "none"]
    /\ hist = <<>>
    /\ evaluators = [p \in Procs |-> IdleEvaluator]
    /\ builders = [p \in Procs |-> IdleBuilder]
    /\ messages = {}
    /\ runs = {}
    /\ fetchers = [p \in Procs |-> IdleFetcher]

\* One observation of the scheduled city, drawn from the scenarios, already stored
InitEvaluators ==
    /\ now = 0
    /\ ticks = 0
    /\ \E r \in ResponsesFor(OPENWEATHER_CITY) :
          observations = InsertWeatherData({}, TransformApiResponse(r, 0, 0), 1)
    /\ alerts = {}
    /\ summaries = {}
    /\ nextId = [observations |-> 2, alerts |-> 1, summaries |-> 1]
    /\ ret = [op |-> "none"]
    /\ hist = <<>>
    /\ evaluators = [p \in Procs |-> IdleEvaluator]
    /\ builders = [p \in Procs |-> IdleBuilder]
    /\ messages = {}
    /\ runs = {}
    /\ fetchers = [p \in Procs |-> IdleFetcher]

\* The store after one ingestion of the scheduled city, one evaluation of the
\* rules and one aggregation, all at the instant 0
InitSwept ==
    /\ now = 0
    /\ ticks = 0
    /\ observations = InsertWeatherData({}, TransformApiResponse(
                                               ScenarioStorm(OPENWEATHER_CITY), 0, 0), 1)
    /\ \E w \in GetLatestWeather(observations, OPENWEATHER_CITY) :
          /\ alerts = RunChecks(1, {}, <<>>, OPENWEATHER_CITY, w, 0, 1).alerts
          /\ \E order \in ConditionOrders :
                summaries = ReplaceOne({}, <<>>,
                                GenerateDashboardSummary(observations, OPENWEATHER_CITY,
                                                         <<w>>, 0, order, "none")[1], 1)
    /\ nextId = [observations |-> 2, alerts |-> Cardinality(alerts) + 1, summaries |-> 2]
    /\ ret = [op |-> "none"]
    /\ hist = <<>>
    /\ evaluators = [p \in Procs |-> IdleEvaluator]
    /\ builders = [p \in Procs |-> IdleBuilder]
    /\ messages = {}
    /\ runs = {}
    /\ fetchers = [p \in Procs |-> IdleFetcher]

\* The instants a stored series starts at: on the hour, and off it
SeriesStarts == {0, 45}

\* The i-th observation of a stored series of the scheduled city
SeriesObservation(i, timestamp) ==
    [id |-> i] @@ TransformApiResponse(IF i % 2 = 0 THEN ScenarioA(OPENWEATHER_CITY)
                                       ELSE ScenarioStorm(OPENWEATHER_CITY),
                                       timestamp, timestamp)

\* The store after nd ingestions a day apart followed by nh ingestions an
\* hour apart, at the instant of the last of them
InitTrends ==
    /\ ticks = 0
    /\ \E nd \in 0..MaxTrendDays, nh \in 0..MaxTrendHours, start \in SeriesStarts :
          LET last_day == start + (IF nd = 0 THEN 0 ELSE nd - 1) * MinutesPerDay IN
          /\ observations =
                {SeriesObservation(k + 1, start + k * MinutesPerDay) : k \in 0..(nd - 1)}
                \cup {SeriesObservation(nd + j, last_day + j * MinutesPerHour) : j \in 1..nh}
          /\ now = last_day + nh * MinutesPerHour
          /\ nextId = [observations |-> nd + nh + 1, alerts |-> 1, summaries |-> 1]
    /\ alerts = {}
    /\ summaries = {}
    /\ ret = [op |-> "none"]
    /\ hist = <<>>
    /\ evaluators = [p \in Procs |-> IdleEvaluator]
    /\ builders = [p \in Procs |-> IdleBuilder]
    /\ messages = {}
    /\ runs = {}
    /\ fetchers = [p \in Procs |-> IdleFetcher]

-----------------------------------------------------------------------------
(* Actions: clock, ingestion, retention *)

\* The clock moves
Tick(d) ==
    /\ ticks < MaxTicks
    /\ now' = now + d
    /\ ticks' = ticks + 1
    /\ UNCHANGED <<observations, alerts, summaries, nextId, ret, hist,
                   evaluators, builders>>
    /\ UNCHANGED <<messages, runs, fetchers>>

\* WeatherService.fetch_and_store_weather with a provider response r; the
\* provider's dt advances from one response for a city to the next
FetchAndStoreWeather(r) ==
    /\ Cardinality(observations) < MaxObs
    /\ \A o \in observations : o.city = r.name => o.timestamp < now
    /\ observations' = InsertWeatherData(observations,
                                         TransformApiResponse(r, now, now),
                                         nextId.observations)
    /\ nextId' = [nextId EXCEPT !.observations = @ + 1]
    /\ UNCHANGED <<now, ticks, alerts, summaries, ret, hist, evaluators, builders>>
    /\ UNCHANGED <<messages, runs, fetchers>>

\* What a provider may put where a number is expected, per field
Malformed(v) == {Json("absent", 0), Json("null", 0), Json("text", 0), Json("list", 0),
                 Json("numeral", v)}

\* The bodies the provider answers a request with: scenario A under either
\* city name, well-formed or with one numeric field missing or malformed
Bodies ==
    LET temp == Json("number", 365)
        humidity == Json("number", 700)
        pressure == Json("number", 1013)
        clouds == Json("object", 40) IN
    {Body(name, temp, humidity, pressure, clouds) : name \in Cities}
    \cup {Body(OPENWEATHER_CITY, x, humidity, pressure, clouds) : x \in Malformed(365)}
    \cup {Body(OPENWEATHER_CITY, temp, x, pressure, clouds) :
             x \in Malformed(700) \cup Malformed(1500)}
    \cup {Body(OPENWEATHER_CITY, temp, humidity, x, clouds) : x \in Malformed(1013)}
    \cup {Body(OPENWEATHER_CITY, temp, humidity, pressure, x) :
             x \in {Json("absent", 0), Json("null", 0), Json("number", 40)}}

\* WeatherService.fetch_and_store_weather(city) when the provider answers the
\* request for `city` with the body api_data: a raise of the transformation
\* is caught and False returned.  `ret` keeps the request, the body and what
\* the call returned and wrote.
FetchAndStoreWeatherFor(city, api_data) ==
    /\ Cardinality(observations) < MaxObs
    /\ \A o \in observations : o.timestamp < now
    /\ \E weather_raw \in {TransformBody(api_data, now, now)} :
          IF weather_raw.raised
          THEN /\ ret' = [op |-> "fetch_and_store_weather", city |-> city,
                          api_data |-> api_data, at |-> now, success |-> FALSE,
                          written |-> {}]
               /\ UNCHANGED <<observations, nextId>>
          ELSE /\ observations' = InsertWeatherData(observations, weather_raw.doc[1],
                                                    nextId.observations)
               /\ nextId' = [nextId EXCEPT !.observations = @ + 1]
               /\ ret' = [op |-> "fetch_and_store_weather", city |-> city,
                          api_data |-> api_data, at |-> now, success |-> TRUE,
                          written |-> {nextId.observations}]
    /\ UNCHANGED <<now, ticks, alerts, summaries, hist, evaluators, builders>>
    /\ UNCHANGED <<messages, runs, fetchers>>

\* The documents the fetch_and_store_weather instances hold and have not
\* inserted yet
Unstored == {p \in Procs : fetchers[p].pc = "insert"}

\* An instance p runs fetch_and_store_weather(city) up to the insert: the
\* provider answers r and transform_api_response builds the document
StartFetch(p, city, r) ==
    /\ fetchers[p].pc = "idle"
    /\ Cardinality(observations) + Cardinality(Unstored) < MaxObs
    /\ fetchers' = [fetchers EXCEPT ![p] =
                       [pc |-> "insert", city |-> city,
                        weather_raw |-> <<TransformApiResponse(r, now, now)>>,
                        wrote |-> <<>>]]
    /\ UNCHANGED <<now, ticks, observations, alerts, summaries, nextId, ret, hist,
                   evaluators, builders, messages, runs>>

\* Instance p inserts its document (the one store call of the ingestion)
StoreFetched(p) ==
    /\ fetchers[p].pc = "insert"
    /\ observations' = InsertWeatherData(observations, fetchers[p].weather_raw[1],
                                         nextId.observations)
    /\ nextId' = [nextId EXCEPT !.observations = @ + 1]
    /\ fetchers' = [fetchers EXCEPT ![p] =
                       [pc |-> "idle", city |-> fetchers[p].city, weather_raw |-> <<>>,
                        wrote |-> <<[id |-> nextId.observations]
                                    @@ fetchers[p].weather_raw[1]>>]]
    /\ UNCHANGED <<now, ticks, alerts, summaries, ret, hist, evaluators, builders,
                   messages, runs>>

\* The retention periods the sweeps are called with: a day, and the scheduled one
SweepDays == {1, DATA_RETENTION_DAYS}

\* The count the last task returned when it was the same sweep, with the same
\* cutoff, and no observation was written since (<<>> otherwise).  A sweep
\* keeps it in `prev`, and in `after` the task that ran before it.
PreviousSweep(op, days) ==
    IF /\ ret.op = op
       /\ ret.at = now
       /\ ret.days = days
       /\ ret.written = nextId.observations
    THEN <<ret.deleted_count>> ELSE <<>>

\* cleanup_old_data(retention_days): the daily soft delete
CleanupOldData(retention_days) ==
    /\ \E r \in {SoftDeleteOldRecords(observations, retention_days, now)} :
       /\ observations' = r.store
       /\ ret' = [op |-> "cleanup_old_data", status |-> "success",
                  deleted_count |-> r.count, days |-> retention_days, at |-> now,
                  written |-> nextId.observations,
                  prev |-> PreviousSweep("cleanup_old_data", retention_days),
                  after |-> ret.op]
    /\ UNCHANGED <<now, ticks, alerts, summaries, nextId, hist, evaluators, builders>>
    /\ UNCHANGED <<messages, runs, fetchers>>

\* hard_delete_old_data(days): the permanent delete, run on demand
HardDeleteOldData(days) ==
    /\ \E r \in {HardDeleteOldRecords(observations, days, now)} :
       /\ observations' = r.store
       /\ ret' = [op |-> "hard_delete_old_data", status |-> "success",
                  deleted_count |-> r.count, days |-> days, at |-> now,
                  written |-> nextId.observations,
                  prev |-> PreviousSweep("hard_delete_old_data", days),
                  after |-> ret.op]
    /\ UNCHANGED <<now, ticks, alerts, summaries, nextId, hist, evaluators, builders>>
    /\ UNCHANGED <<messages, runs, fetchers>>

\* cleanup_old_alerts(days): the delete of old alert logs, run on demand
CleanupOldAlerts(days) ==
    /\ \E r \in {DeleteOldAlerts(alerts, days, now)} :
       /\ alerts' = r.store
       /\ ret' = [op |-> "cleanup_old_alerts", status |-> "success",
                  deleted_count |-> r.count, days |-> days, at |-> now]
    /\ UNCHANGED <<now, ticks, observations, summaries, nextId, hist, evaluators, builders>>
    /\ UNCHANGED <<messages, runs, fetchers>>

\* AlertService.acknowledge_alert(alert_id): an InvalidId the repository
\* re-raises is caught and False returned.  `was` keeps the alert the id
\* matched as it was before the call (<<>>: none).
AcknowledgeAlert(alert_id) ==
    /\ \E r \in {IF IsObjectId(alert_id) THEN AcknowledgeAlertById(alerts, alert_id, now)
                  ELSE [store |-> alerts, modified_count |-> 0]} :
       /\ alerts' = r.store
       /\ ret' = [op |-> "acknowledge_alert", variant |-> "static",
                  alert_id |-> alert_id, user |-> <<>>, at |-> now,
                  was |-> IF \E a \in alerts : a.id = alert_id
                          THEN <<CHOOSE a \in alerts : a.id = alert_id>> ELSE <<>>,
                  success |-> r.modified_count > 0,
                  raised |-> "none"]
    /\ UNCHANGED <<now, ticks, observations, summaries, nextId, hist, evaluators, builders>>
    /\ UNCHANGED <<messages, runs, fetchers>>

\* The class-based AlertService.acknowledge_alert(alert_id, user): False from
\* the repository is raised as NotFoundException; an InvalidId the repository
\* re-raises carries no status_code, and handle_exceptions turns it into an
\* InternalServerException
BoundaryAcknowledgeAlert(alert_id, user) ==
    /\ \E r \in {IF IsObjectId(alert_id)
                  THEN BoundaryAcknowledgeAlertById(alerts, alert_id, user, now)
                  ELSE [store |-> alerts, modified_count |-> 0]} :
       /\ alerts' = r.store
       /\ ret' = [op |-> "acknowledge_alert", variant |-> "boundary",
                  alert_id |-> alert_id, user |-> <<user>>, at |-> now,
                  was |-> IF \E a \in alerts : a.id = alert_id
                          THEN <<CHOOSE a \in alerts : a.id = alert_id>> ELSE <<>>,
                  success |-> r.modified_count > 0,
                  raised |-> IF ~ IsObjectId(alert_id) THEN "InternalServerException"
                             ELSE IF r.modified_count > 0 THEN "none"
                             ELSE "NotFoundException"]
    /\ UNCHANGED <<now, ticks, observations, summaries, nextId, hist, evaluators, builders>>
    /\ UNCHANGED <<messages, runs, fetchers>>

-----------------------------------------------------------------------------
(* Actions: alert evaluation *)

\* AlertService.check_and_create_alerts(city), as check_weather_alerts and
\* check_alerts_on_demand run it, one call at a time
CheckAndCreateAlerts(city) ==
    /\ IF GetLatestWeather(observations, city) = {}
       THEN UNCHANGED <<alerts, nextId, hist>>
       ELSE \E w \in GetLatestWeather(observations, city) :
               LET r == RunChecks(1, alerts, <<>>, city, w, now, nextId.alerts) IN
               /\ alerts' = r.alerts
               /\ nextId' = [nextId EXCEPT !.alerts = @ + Len(r.ids)]
               /\ hist' = Evaluation(hist,
                                     Call("scheduled", city, now,
                                          GetLatestWeather(observations, city), <<w>>,
                                          nextId.alerts, r.ids))
    /\ UNCHANGED <<now, ticks, observations, summaries, ret, evaluators, builders>>
    /\ UNCHANGED <<messages, runs, fetchers>>

\* The failures one evaluation meets: none, or one store call of one rule
FailureCases ==
    {failed \in [RuleTypes -> {"none"} \cup RuleFailures] :
        Cardinality({rule \in RuleTypes : failed[rule] # "none"}) <= 1}

\* AlertService.check_and_create_alerts(city) when the read of the latest
\* document raises (latest_failed: the outer except returns []) or store
\* calls of the rules do (failed).  `ret` keeps what the call was given, what
\* it read and what it returned.
CheckAndCreateAlertsWithFailures(city, latest_failed, failed) ==
    /\ IF latest_failed \/ GetLatestWeather(observations, city) = {}
       THEN /\ ret' = [op |-> "check_and_create_alerts", city |-> city, at |-> now,
                       latest_failed |-> latest_failed, failed |-> failed,
                       weather |-> <<>>, id0 |-> nextId.alerts, ids |-> <<>>,
                       raised |-> FALSE]
            /\ UNCHANGED <<alerts, nextId>>
       ELSE \E w \in GetLatestWeather(observations, city) :
            \E r \in {RunChecksWithFailures(1, alerts, <<>>, city, w, now,
                                            nextId.alerts, failed)} :
               /\ alerts' = r.alerts
               /\ nextId' = [nextId EXCEPT !.alerts = @ + Len(r.ids)]
               /\ ret' = [op |-> "check_and_create_alerts", city |-> city, at |-> now,
                          latest_failed |-> latest_failed, failed |-> failed,
                          weather |-> <<w>>, id0 |-> nextId.alerts, ids |-> r.ids,
                          raised |-> FALSE]
    /\ UNCHANGED <<now, ticks, observations, summaries, hist, evaluators, builders>>
    /\ UNCHANGED <<messages, runs, fetchers>>

\* AlertController.trigger_alert_check(city): the class-based
\* check_and_create_alerts returns [] when the read raises or finds nothing
TriggerAlertCheck(city) ==
    /\ LET read == BoundaryGetLatestWeather(observations, city)
           truth == {o \in observations : /\ o.city = city /\ o.is_deleted = FALSE
                                          /\ \A p \in observations :
                                                (p.city = city /\ p.is_deleted = FALSE)
                                                    => p.timestamp <= o.timestamp} IN
       IF read.raised \/ read.documents = {}
       THEN /\ hist' = Evaluation(hist, Call("boundary", city, now, truth, <<>>,
                                             nextId.alerts, <<>>))
            /\ UNCHANGED <<alerts, nextId>>
       ELSE \E w \in read.documents :
               LET r == BoundaryRunChecks(1, alerts, <<>>, city, w, now, nextId.alerts) IN
               /\ alerts' = r.alerts
               /\ nextId' = [nextId EXCEPT !.alerts = @ + Len(r.ids)]
               /\ hist' = Evaluation(hist, Call("boundary", city, now, truth, <<w>>,
                                                nextId.alerts, r.ids))
    /\ UNCHANGED <<now, ticks, observations, summaries, ret, evaluators, builders>>
    /\ UNCHANGED <<messages, runs, fetchers>>

\* The position after rule i of an evaluator instance was dealt with
AfterRule(e) ==
    IF e.i = Len(RuleOrder) THEN IdleEvaluator
    ELSE [e EXCEPT !.pc = "check", !.i = @ + 1, !.alert = <<>>]

\* An evaluator instance p starts check_and_create_alerts(city): the read of
\* the latest document
StartCheck(p, city) ==
    /\ evaluators[p].pc = "idle"
    /\ IF GetLatestWeather(observations, city) = {}
       THEN UNCHANGED evaluators
       ELSE \E w \in GetLatestWeather(observations, city) :
               evaluators' = [evaluators EXCEPT ![p] =
                                 [pc |-> "check", city |-> city, weather |-> <<w>>,
                                  i |-> 1, ids |-> <<>>, alert |-> <<>>]]
    /\ UNCHANGED <<now, ticks, observations, alerts, summaries, nextId, ret, hist, builders>>
    /\ UNCHANGED <<messages, runs, fetchers>>

\* Instance p evaluates its next rule up to the AlertLog it builds: the trip
\* condition, the cooldown query (one store call) and the construction
QueryCooldown(p) ==
    /\ evaluators[p].pc = "check"
    /\ LET e == evaluators[p]
           alert == CheckRule(RuleOrder[e.i], alerts, e.city, e.weather[1], now) IN
       evaluators' = [evaluators EXCEPT ![p] =
                         IF alert = <<>> THEN AfterRule(e)
                         ELSE [e EXCEPT !.pc = "insert", !.alert = alert]]
    /\ UNCHANGED <<now, ticks, observations, alerts, summaries, nextId, ret, hist, builders>>
    /\ UNCHANGED <<messages, runs, fetchers>>

\* Instance p inserts the AlertLog it built (the second store call)
InsertBuiltAlert(p) ==
    /\ evaluators[p].pc = "insert"
    /\ LET e == evaluators[p] IN
       /\ alerts' = InsertAlert(alerts, e.alert[1], nextId.alerts)
       /\ nextId' = [nextId EXCEPT !.alerts = @ + 1]
       /\ evaluators' = [evaluators EXCEPT ![p] =
                            AfterRule([e EXCEPT !.ids = Append(@, nextId.alerts)])]
    /\ UNCHANGED <<now, ticks, observations, summaries, ret, hist, builders>>
    /\ UNCHANGED <<messages, runs, fetchers>>

-----------------------------------------------------------------------------
(* Actions: aggregation *)

\* What may go wrong in one run: a store read of the build, or the save
Failures == Reads \cup {"save"}

\* The non-deleted observations of a city
LiveObservations(store, city) == {o \in store : o.city = city /\ o.is_deleted = FALSE}

\* The body of populate_dashboard_summary(city) run at the instant t:
\* generate_dashboard_summary, then save_dashboard_summary; no summary is
\* status no_data, a failed save a retry.  `failed` is what goes wrong in the
\* run, or "none".
GenerateAndSave(city, t, failed) ==
    \E order \in ConditionOrders :
    \E latest_weather \in (IF GetLatestWeather(observations, city) = {} THEN {<<>>}
                           ELSE {<<w>> : w \in GetLatestWeather(observations, city)}) :
    \E summary \in {GenerateDashboardSummary(observations, city, latest_weather,
                                             t, order, failed)} :
       LET seen == [op |-> "populate_dashboard_summary", city |-> city,
                    failed |-> failed,
                    live |-> Cardinality(LiveObservations(observations, city)),
                    built |-> summary, before |-> summaries] IN
       IF summary = <<>>
       THEN /\ ret' = [status |-> "no_data", retry |-> FALSE] @@ seen
            /\ UNCHANGED <<summaries, nextId>>
       ELSE \E matches \in {UpsertMatches(summaries, summary[1])} :
            \E target \in (IF matches = {} THEN {<<>>} ELSE {<<s.id>> : s \in matches}) :
            \E written \in {ReplaceOne(summaries, target, summary[1], nextId.summaries)} :
               IF failed # "save" /\ UniqueIndexHolds(written)
               THEN /\ summaries' = written
                    /\ nextId' = [nextId EXCEPT !.summaries =
                                     IF target = <<>> THEN @ + 1 ELSE @]
                    /\ ret' = [status |-> "success", retry |-> FALSE] @@ seen
               ELSE /\ ret' = [status |-> "retry", retry |-> TRUE] @@ seen
                    /\ UNCHANGED <<summaries, nextId>>

\* populate_dashboard_summary(city), one run of it
PopulateDashboardSummary(city, failed) ==
    /\ GenerateAndSave(city, now, failed)
    /\ UNCHANGED <<now, ticks, observations, alerts, hist, evaluators, builders>>
    /\ UNCHANGED <<messages, runs, fetchers>>

\* A builder instance p (the scheduled task or an on-demand refresh)
\* generates the summary of the city
StartBuild(p, city) ==
    /\ builders[p].pc = "idle"
    /\ GetLatestWeather(observations, city) # {}
    /\ \E w \in GetLatestWeather(observations, city), order \in ConditionOrders :
       \E summary \in {GenerateDashboardSummary(observations, city, <<w>>, now,
                                                order, "none")} :
          builders' = [builders EXCEPT ![p] =
                          IF summary = <<>> THEN IdleBuilder
                          ELSE [pc |-> "save", summary |-> summary, target |-> <<>>]]
    /\ UNCHANGED <<now, ticks, observations, alerts, summaries, nextId, ret, hist, evaluators>>
    /\ UNCHANGED <<messages, runs, fetchers>>

\* The store begins p's replace_one(..., upsert=True): it looks for a
\* document the filter matches
UpsertMatch(p) ==
    /\ builders[p].pc = "save"
    /\ \E target \in (IF UpsertMatches(summaries, builders[p].summary[1]) = {} THEN {<<>>}
                      ELSE {<<s.id>> : s \in UpsertMatches(summaries, builders[p].summary[1])}) :
          builders' = [builders EXCEPT ![p] = [@ EXCEPT !.pc = "write", !.target = target]]
    /\ UNCHANGED <<now, ticks, observations, alerts, summaries, nextId, ret, hist, evaluators>>
    /\ UNCHANGED <<messages, runs, fetchers>>

\* The store completes it: the replacement, or the insert of the upsert,
\* which the unique index may refuse (save_dashboard_summary returns False)
UpsertWrite(p) ==
    /\ builders[p].pc = "write"
    /\ LET b == builders[p]
           written == ReplaceOne(summaries, b.target, b.summary[1], nextId.summaries) IN
       IF UniqueIndexHolds(written)
       THEN /\ summaries' = written
            /\ nextId' = [nextId EXCEPT !.summaries = IF b.target = <<>> THEN @ + 1 ELSE @]
       ELSE UNCHANGED <<summaries, nextId>>
    /\ builders' = [builders EXCEPT ![p] = IdleBuilder]
    /\ UNCHANGED <<now, ticks, observations, alerts, ret, hist, evaluators>>
    /\ UNCHANGED <<messages, runs, fetchers>>

-----------------------------------------------------------------------------
(* Actions: the Celery tasks and their retries *)

\* A task message.  `path` tells the message of the schedule (<<>>) from the
\* retries: a retry carries the path of the execution that sent it, extended
\* by which of the execution's self.retry calls it was (1: the first).  The
\* broker holds a message for its countdown (seconds); the executions below
\* leave open how much later than that a worker runs it.
Message(task, city, retries, path, countdown) ==
    [task |-> task, city |-> city, retries |-> retries, path |-> path,
     countdown |-> countdown]

\* A self.retry that sends nothing
CeleryRetrySendingNothing(m, max_retries, countdown, call) == {}

\* self.retry(exc=..., countdown=countdown) in the execution of m: the
\* messages it sends.  With request.retries + 1 > max_retries it
\* raises exc and sends none; otherwise it sends the task again, with
\* retries + 1, and raises Retry.
CeleryRetry(m, max_retries, countdown, call) ==
    IF m.retries + 1 > max_retries THEN {}
    ELSE {Message(m.task, m.city, m.retries + 1, Append(m.path, call), countdown)}

\* What one execution leaves in `runs`
Run(m, outcome, success, scheduled) ==
    [task |-> m.task, city |-> m.city, retries |-> m.retries, path |-> m.path,
     outcome |-> outcome, success |-> success, scheduled |-> scheduled,
     state |-> IF success THEN "SUCCESS"
               ELSE IF scheduled = {} THEN "FAILURE" ELSE "RETRY"]

\* How the provider fetch fails: the 10 s timeout, a non-2xx status, a
\* transport error
FetchErrors == {[error |-> e] : e \in {"timeout", "status", "transport"}}

\* Whether a provider outcome is a failure, and what `runs` keeps of it
IsFetchError(outcome) == "error" \in DOMAIN outcome
OutcomeName(outcome) == IF IsFetchError(outcome) THEN "error" ELSE "response"

\* Celery beat sends the scheduled fetch_weather_data(OPENWEATHER_CITY), once
SendFetchWeatherData ==
    /\ ~ \E x \in messages \cup runs : x.task = "fetch_weather_data"
    /\ messages' = messages \cup
                      {Message("fetch_weather_data", OPENWEATHER_CITY, 0, <<>>, 0)}
    /\ UNCHANGED <<now, ticks, observations, alerts, summaries, nextId, ret, hist,
                   evaluators, builders, runs, fetchers>>

\* fetch_weather_data(self, city), the execution of the message m.  `outcome`
\* is the provider's response or the way the fetch fails.  On a failure
\* fetch_and_store_weather returns False; the task raises self.retry(...)
\* inside its try block, and the except Exception clause, which catches what
\* that call raises, calls self.retry(countdown=2 ** retries * 60) again.
FetchWeatherData(m, outcome) ==
    /\ m \in messages
    /\ m.task = "fetch_weather_data"
    /\ IF IsFetchError(outcome)
       THEN \E scheduled \in
                 {CeleryRetry(m, FetchMaxRetries, FetchDefaultRetryDelay, 1)
                  \cup CeleryRetry(m, FetchMaxRetries, 2 ^ m.retries * 60, 2)} :
               /\ messages' = (messages \ {m}) \cup scheduled
               /\ runs' = runs \cup {Run(m, OutcomeName(outcome), FALSE, scheduled)}
               /\ UNCHANGED <<observations, nextId>>
       ELSE /\ Cardinality(observations) < MaxObs
            /\ observations' = InsertWeatherData(observations,
                                                 TransformApiResponse(outcome, now, now),
                                                 nextId.observations)
            /\ nextId' = [nextId EXCEPT !.observations = @ + 1]
            /\ messages' = messages \ {m}
            /\ runs' = runs \cup {Run(m, OutcomeName(outcome), TRUE, {})}
    /\ UNCHANGED <<now, ticks, alerts, summaries, ret, hist, evaluators, builders,
                   fetchers>>

\* Celery beat sends the scheduled populate_dashboard_summary(OPENWEATHER_CITY), once
SendPopulateDashboardSummary ==
    /\ ~ \E x \in messages \cup runs : x.task = "populate_dashboard_summary"
    /\ messages' = messages \cup
                      {Message("populate_dashboard_summary", OPENWEATHER_CITY, 0, <<>>, 0)}
    /\ UNCHANGED <<now, ticks, observations, alerts, summaries, nextId, ret, hist,
                   evaluators, builders, runs, fetchers>>

\* populate_dashboard_summary(self, city), the execution of the message m.
\* When the save fails the task raises self.retry(...) inside its try block,
\* and the except Exception clause, which catches what that call raises, calls
\* self.retry(countdown=120) again.
PopulateDashboardSummaryTask(m, failed) ==
    /\ m \in messages
    /\ m.task = "populate_dashboard_summary"
    /\ GenerateAndSave(m.city, now, failed)
    /\ \E scheduled \in
            {IF ret'.retry
             THEN CeleryRetry(m, PopulateMaxRetries, CeleryDefaultRetryDelay, 1)
                  \cup CeleryRetry(m, PopulateMaxRetries, PopulateRetryCountdown, 2)
             ELSE {}} :
          /\ messages' = (messages \ {m}) \cup scheduled
          /\ runs' = runs \cup {Run(m, failed, ~ ret'.retry, scheduled)}
    /\ UNCHANGED <<now, ticks, observations, alerts, hist, evaluators, builders,
                   fetchers>>

-----------------------------------------------------------------------------
(* Specifications *)

\* The scheduled pipeline, one call at a time
Next ==
    \/ \E d \in TickSteps : Tick(d)
    \/ \E c \in Cities : \E r \in ResponsesFor(c) : FetchAndStoreWeather(r)
    \/ \E c \in Cities : CheckAndCreateAlerts(c)

Spec == Init /\ [][Next]_vars

\* The rules on one stored observation of the grid
NextRules ==
    \/ \E d \in TickSteps : Tick(d)
    \/ CheckAndCreateAlerts(OPENWEATHER_CITY)

SpecRules == InitRules /\ [][NextRules]_vars

\* The on-demand check of the boundary layer
NextBoundary ==
    \/ \E d \in TickSteps : Tick(d)
    \/ \E c \in Cities : \E r \in ResponsesFor(c) : FetchAndStoreWeather(r)
    \/ \E c \in Cities : TriggerAlertCheck(c)

SpecBoundary == Init /\ [][NextBoundary]_vars

\* Several evaluator instances for the scheduled city, store call by store call
NextEvaluators ==
    \/ \E d \in TickSteps : Tick(d)
    \/ \E p \in Procs : StartCheck(p, OPENWEATHER_CITY)
    \/ \E p \in Procs : QueryCooldown(p)
    \/ \E p \in Procs : InsertBuiltAlert(p)

SpecEvaluators == InitEvaluators /\ [][NextEvaluators]_vars

\* Ingestion, retention and the aggregation task, one call at a time
NextDashboard ==
    \/ \E d \in DayTickSteps : Tick(d)
    \/ \E r \in ResponsesFor(OPENWEATHER_CITY) : FetchAndStoreWeather(r)
    \/ CleanupOldData(DATA_RETENTION_DAYS)
    \/ \E failed \in {"none"} \cup Failures :
          PopulateDashboardSummary(OPENWEATHER_CITY, failed)

SpecDashboard == Init /\ [][NextDashboard]_vars

\* Several builder instances for the scheduled city, store call by store call
NextUpserts ==
    \/ \E d \in TickSteps : Tick(d)
    \/ \E r \in ResponsesFor(OPENWEATHER_CITY) : FetchAndStoreWeather(r)
    \/ \E p \in Procs : StartBuild(p, OPENWEATHER_CITY)
    \/ \E p \in Procs : UpsertMatch(p)
    \/ \E p \in Procs : UpsertWrite(p)

SpecUpserts == Init /\ [][NextUpserts]_vars

\* The clock advance of the retention specifications: a minute more than the
\* retention period
RetentionTickSteps == {2881}

\* Ingestion, both sweeps, alert evaluation, acknowledgement (of the first
\* alert, or of an id no alert has) and aggregation for the scheduled city,
\* one call at a time; the store reads of the aggregation succeed
NextRetention ==
    \/ \E d \in RetentionTickSteps : Tick(d)
    \/ \E r \in ResponsesFor(OPENWEATHER_CITY) : FetchAndStoreWeather(r)
    \/ CleanupOldData(DATA_RETENTION_DAYS)
    \/ HardDeleteOldData(DATA_RETENTION_DAYS)
    \/ CheckAndCreateAlerts(OPENWEATHER_CITY)
    \/ \E alert_id \in {1, nextId.alerts} : AcknowledgeAlert(alert_id)
    \/ PopulateDashboardSummary(OPENWEATHER_CITY, "none")

SpecRetention == Init /\ [][NextRetention]_vars

\* Ingestion for every city and the three sweeps, called with either period
NextSweeps ==
    \/ \E d \in DayTickSteps : Tick(d)
    \/ \E c \in Cities : \E r \in ResponsesFor(c) : FetchAndStoreWeather(r)
    \/ \E days \in SweepDays : CleanupOldData(days)
    \/ \E days \in SweepDays : HardDeleteOldData(days)
    \/ \E days \in SweepDays : CleanupOldAlerts(days)

SpecSweeps == InitSwept /\ [][NextSweeps]_vars

\* The aggregation task on a stored series; its store reads succeed
NextTrends ==
    \/ \E d \in DayTickSteps : Tick(d)
    \/ PopulateDashboardSummary(OPENWEATHER_CITY, "none")

SpecTrends == InitTrends /\ [][NextTrends]_vars

\* The scheduled ingestion and its retries; the provider answers or fails
NextIngestion ==
    \/ SendFetchWeatherData
    \/ \E m \in messages :
       \E outcome \in FetchErrors \cup ResponsesFor(OPENWEATHER_CITY) :
          FetchWeatherData(m, outcome)

SpecIngestion == Init /\ [][NextIngestion]_vars

\* The scheduled aggregation and its retries on a store with one
\* observation; the save succeeds or fails
NextAggregation ==
    \/ SendPopulateDashboardSummary
    \/ \E m \in messages : \E failed \in {"none", "save"} :
          PopulateDashboardSummaryTask(m, failed)

SpecAggregation == InitEvaluators /\ [][NextAggregation]_vars

\* Clock advances of the schedule: an hour, and a minute more than the
\* retention period of alerts
BeatTickSteps == {60, ALERT_RETENTION_DAYS * MinutesPerDay + 1}

\* The periodic schedule alone: the four entries of beat_schedule, each with
\* the arguments the schedule gives it
NextBeat ==
    \/ \E d \in BeatTickSteps : Tick(d)
    \/ \E r \in ResponsesFor(OPENWEATHER_CITY) : FetchAndStoreWeather(r)
    \/ PopulateDashboardSummary(OPENWEATHER_CITY, "none")
    \/ CleanupOldData(DATA_RETENTION_DAYS)
    \/ CheckAndCreateAlerts(OPENWEATHER_CITY)

\* Celery beat keeps sending the retention entry, and a worker keeps running it
SpecBeat ==
    /\ Init
    /\ [][NextBeat]_vars
    /\ WF_vars(CleanupOldData(DATA_RETENTION_DAYS))

\* The ids an acknowledgement is called with: a string that is no ObjectId,
\* the first id the store hands out, and the next one, which no alert has
AcknowledgeIds == {0, 1, nextId.alerts}

\* Ingestion and alert evaluation for the scheduled city, and acknowledgement
\* through either AlertService
NextAcknowledge ==
    \/ \E d \in TickSteps : Tick(d)
    \/ \E r \in ResponsesFor(OPENWEATHER_CITY) : FetchAndStoreWeather(r)
    \/ CheckAndCreateAlerts(OPENWEATHER_CITY)
    \/ \E alert_id \in AcknowledgeIds : AcknowledgeAlert(alert_id)
    \/ \E alert_id \in AcknowledgeIds : \E user \in Users :
          BoundaryAcknowledgeAlert(alert_id, user)

SpecAcknowledge == Init /\ [][NextAcknowledge]_vars

-----------------------------------------------------------------------------
(* Properties of the alert evaluation *)

\* The rules whose documented condition holds on the document w
Tripped(w) ==
    {R \in RuleTypes :
        \/ R = "HIGH_TEMPERATURE" /\ w.temperature.current > ALERT_TEMP_HIGH
        \/ R = "LOW_TEMPERATURE" /\ w.temperature.current < ALERT_TEMP_LOW
        \/ R = "HIGH_HUMIDITY" /\ w.humidity > ALERT_HUMIDITY_HIGH
        \/ R = "EXTREME_WEATHER" /\ w.weather.main \in ALERT_EXTREME_WEATHER}

\* The stored alerts the call e found, and those of type R it created
Before(e) == {a \in alerts : a.id < e.id0}
Created(e, R) ==
    {a \in alerts : a.alert_type = R /\ \E i \in 1..Len(e.ids) : a.id = e.ids[i]}

\* The alerts of (e.city, R) the call e found inside its cooldown window
InWindow(e, R) ==
    {a \in Before(e) : /\ a.city = e.city /\ a.alert_type = R
                       /\ a.triggered_at >= e.at - ALERT_COOLDOWN_MINUTES}

\* The last two scheduled evaluations were for the same city, at most
\* cooldown_minutes apart
TwoCallsWithinCooldown(variant) ==
    /\ hist # <<>>
    /\ hist[1].prev # <<>>
    /\ hist[1].last.variant = variant
    /\ hist[1].last.at - hist[1].prev[1].at <= ALERT_COOLDOWN_MINUTES

C3_BoundaryCooldownOneAlert ==
    TwoCallsWithinCooldown("boundary") =>
        LET e1 == hist[1].prev[1]
            e2 == hist[1].last IN
        \A R \in RuleTypes :
            ( /\ \E w \in e1.latest : R \in Tripped(w) /\ BoundaryTrips(R, w)
              /\ \E w \in e2.latest : R \in Tripped(w) /\ BoundaryTrips(R, w)
              /\ InWindow(e1, R) = {} )
            => Cardinality({a \in alerts : /\ a.city = e1.city /\ a.alert_type = R
                                           /\ a.id >= e1.id0}) = 1

\* C2, as stated: no two stored alerts of the same (city, rule_type) have
\* triggered_at values less than cooldown_minutes apart.
C2_NoTwoAlertsWithinCooldown ==
    \A a, b \in alerts :
        (a.id # b.id /\ a.city = b.city /\ a.alert_type = b.alert_type)
            => \/ a.triggered_at - b.triggered_at >= ALERT_COOLDOWN_MINUTES
               \/ b.triggered_at - a.triggered_at >= ALERT_COOLDOWN_MINUTES

\* C4: a call that finds no alert of the city inside the cooldown window
\* evaluates a latest non-deleted observation and creates exactly one alert of
\* each rule whose condition holds on it (strictly) and none of any other;
\* the returned ids follow the rule order; 36.5 degrees, 70 %, Clear creates
\* exactly one alert, of type HIGH_TEMPERATURE.
C4_AlertsIffRuleTrips ==
    (hist # <<>> /\ hist[1].last.variant = "scheduled"
                 /\ \A R \in RuleTypes : InWindow(hist[1].last, R) = {}) =>
        LET e == hist[1].last
            w == e.weather[1]
            rule(i) == (CHOOSE a \in alerts : a.id = e.ids[i]).alert_type
            index(R) == CHOOSE k \in 1..Len(RuleOrder) : RuleOrder[k] = R IN
        /\ w \in e.latest
        /\ Cardinality(Created(e, "HIGH_TEMPERATURE")) =
              IF w.temperature.current > ALERT_TEMP_HIGH THEN 1 ELSE 0
        /\ Cardinality(Created(e, "LOW_TEMPERATURE")) =
              IF w.temperature.current < ALERT_TEMP_LOW THEN 1 ELSE 0
        /\ Cardinality(Created(e, "HIGH_HUMIDITY")) =
              IF w.humidity > ALERT_HUMIDITY_HIGH THEN 1 ELSE 0
        /\ Cardinality(Created(e, "EXTREME_WEATHER")) =
              IF w.weather.main \in ALERT_EXTREME_WEATHER THEN 1 ELSE 0
        /\ \A i \in 1..Len(e.ids) : \E a \in alerts : a.id = e.ids[i] /\ a.city = e.city
        /\ \A i, j \in 1..Len(e.ids) : i < j => index(rule(i)) < index(rule(j))
        /\ (w.temperature.current = 365 /\ w.humidity = 700 /\ w.weather.main = "Clear")
              => (Len(e.ids) = 1 /\ rule(1) = "HIGH_TEMPERATURE")

\* A quiet call on an observation exactly at the high-temperature threshold,
\* humid and stormy: two alerts, HIGH_HUMIDITY before EXTREME_WEATHER
C4_Witness ==
    /\ hist # <<>>
    /\ \A R \in RuleTypes : InWindow(hist[1].last, R) = {}
    /\ hist[1].last.weather[1].temperature.current = ALERT_TEMP_HIGH
    /\ Len(hist[1].last.ids) = 2
    /\ Created(hist[1].last, "HIGH_HUMIDITY") # {}
    /\ Created(hist[1].last, "EXTREME_WEATHER") # {}

C6_CooldownPerCityAndRule ==
    (hist # <<>> /\ hist[1].last.variant = "scheduled") =>
        LET e == hist[1].last IN
        \A R \in Tripped(e.weather[1]) :
            /\ (Created(e, R) = {}) <=> (InWindow(e, R) # {})
            /\ \A a \in Created(e, R) : a.city = e.city

\* A call for X that creates an alert of type R although an alert of (Y, R)
\* and, by the time R is checked, an alert of (X, another type) lie inside
\* the window
C6_Witness ==
    /\ hist # <<>>
    /\ \E R \in RuleTypes : \E b \in Created(hist[1].last, R) :
          /\ \E a \in Before(hist[1].last) :
                /\ a.city # hist[1].last.city /\ a.alert_type = R
                /\ a.triggered_at >= hist[1].last.at - ALERT_COOLDOWN_MINUTES
          /\ \E a \in alerts :
                /\ a.city = hist[1].last.city /\ a.alert_type # R /\ a.id < b.id
                /\ a.triggered_at >= hist[1].last.at - ALERT_COOLDOWN_MINUTES

-----------------------------------------------------------------------------
(* Properties of the aggregation *)

SummaryFields ==
    {"city", "summary_type", "generated_at", "current_weather", "today_stats",
     "hourly_trend", "daily_trend", "weather_distribution"}

\* The last task run was populate_dashboard_summary
Populated == ret.op = "populate_dashboard_summary"

\* The summaries of the last run's (city, kind) it found, and those stored now
FoundSummaries == {s \in ret.before : s.city = ret.city /\ s.summary_type = "hourly"}
StoredSummaries == {s \in summaries : s.city = ret.city /\ s.summary_type = "hourly"}

\* C7: after a successful run that follows an earlier successful run for the
\* city, the store holds exactly one Summary of (city, kind), and every field
\* of it is the value this run computed.
C7_SecondRunReplacesSummary ==
    (Populated /\ ret.status = "success" /\ FoundSummaries # {}) =>
        /\ Cardinality(StoredSummaries) = 1
        /\ \A s \in StoredSummaries : \A f \in SummaryFields : s[f] = ret.built[1][f]
        /\ Cardinality(summaries) = Cardinality(ret.before)

\* A second successful run whose summary differs from the first in
\* generated_at, current, today, both trends and the distribution
C7_Witness ==
    /\ Populated
    /\ ret.status = "success"
    /\ ret.failed = "none"
    /\ \A s \in FoundSummaries \cup StoredSummaries :
          s.today_stats.records_count > 0 /\ s.hourly_trend # <<>> /\ s.daily_trend # <<>>
    /\ \E old \in FoundSummaries : \E s \in StoredSummaries :
          \A f \in SummaryFields \ {"city", "summary_type"} : old[f] # s[f]

\* C8, as stated: the store holds at most one Summary per (city, kind).
C8_AtMostOneSummaryPerKey ==
    \A s, u \in summaries :
        (s.city = u.city /\ s.summary_type = u.summary_type) => s.id = u.id

\* C9: a run for a city with no non-deleted observation ends with status
\* no_data, schedules no retry, builds nothing and leaves the SummaryStore as
\* it was.
C9_NoDataLeavesStoreUnchanged ==
    (Populated /\ ret.live = 0) =>
        /\ ret.status = "no_data"
        /\ ret.retry = FALSE
        /\ ret.built = <<>>
        /\ summaries = ret.before

\* A run after every observation of the city was soft-deleted, with a
\* Summary of an earlier run in the store
C9_Witness ==
    /\ Populated
    /\ ret.live = 0
    /\ ret.status = "no_data"
    /\ \E o \in observations : o.city = ret.city /\ o.is_deleted
    /\ \E s \in summaries : s.city = ret.city

\* C10, as stated: a run in which the read of the today statistics, of the
\* 24-hour range, of the 7-day range or of the condition histogram fails
\* saves no Summary.
C10_FailedReadAbortsBuild ==
    (Populated /\ ret.failed \in {"today", "hourly", "daily", "distribution"}) =>
        /\ ret.status # "success"
        /\ summaries = ret.before

-----------------------------------------------------------------------------
(* Properties of the retention sweeps *)

\* The step is a run of the soft sweep, of the hard sweep
SoftSwept == ret'.op = "cleanup_old_data" /\ ret' # ret
HardSwept == ret'.op = "hard_delete_old_data" /\ ret' # ret

\* The cutoff of the sweep the step runs
SweepCutoff == now - ret'.days * MinutesPerDay

\* C11: in a built Summary the hourly_trend has at most 24 elements with
\* strictly increasing hours and the daily_trend at most 7 elements with
\* strictly increasing dates.
C11_TrendsBoundedAndOrdered ==
    (Populated /\ ret.built # <<>>) =>
        LET hourly_trend == ret.built[1].hourly_trend
            daily_trend == ret.built[1].daily_trend IN
        /\ Len(hourly_trend) <= 24
        /\ \A i \in 1..(Len(hourly_trend) - 1) :
              hourly_trend[i].hour < hourly_trend[i + 1].hour
        /\ Len(daily_trend) <= 7
        /\ \A i \in 1..(Len(daily_trend) - 1) :
              daily_trend[i].date < daily_trend[i + 1].date

\* A Summary with 24 hourly elements built when the observations of the last
\* 24 hours fall into 25 hours, and with more than one daily element
C11_Witness ==
    /\ Populated
    /\ ret.built # <<>>
    /\ Len(ret.built[1].hourly_trend) = 24
    /\ Len(ret.built[1].daily_trend) > 1
    /\ Cardinality({HourKey(o.timestamp) :
                       o \in {q \in observations :
                                 /\ q.timestamp >= ret.built[1].generated_at - 24 * MinutesPerHour
                                 /\ q.timestamp <= ret.built[1].generated_at}}) = 25

\* C12: a soft-deleted observation is returned or counted by no read.  The
\* document an evaluation of the rules reads is a stored, non-deleted one;
\* and in a built Summary the current weather is that of a non-deleted
\* observation of the city, the today statistics, every daily and hourly
\* element and the condition histogram count non-deleted observations only.
C12_DeletedNeverRead ==
    [][/\ (hist' # hist /\ hist'[1].last.weather # <<>>) =>
            /\ hist'[1].last.weather[1] \in observations
            /\ hist'[1].last.weather[1].is_deleted = FALSE
       /\ (ret'.op = "populate_dashboard_summary" /\ ret' # ret /\ ret'.built # <<>>) =>
            LET S == ret'.built[1]
                live == {o \in observations : o.city = ret'.city /\ o.is_deleted = FALSE}
                today_start == now - (now % MinutesPerDay) IN
            /\ \E o \in live : S.current_weather = BuildCurrentWeather(o)
            /\ S.today_stats.records_count =
                  Cardinality({o \in live : /\ o.timestamp >= today_start
                                            /\ o.timestamp <= today_start + MinutesPerDay})
            /\ \A i \in DOMAIN S.hourly_trend :
                  \E o \in live : HourKey(o.timestamp) = S.hourly_trend[i].hour
            /\ \A i \in DOMAIN S.daily_trend :
                  /\ S.daily_trend[i].records_count >= 1
                  /\ S.daily_trend[i].records_count <=
                        Cardinality({o \in live : DateKey(o.timestamp) = S.daily_trend[i].date})
            /\ \A c \in DOMAIN S.weather_distribution :
                  /\ S.weather_distribution[c] >= 1
                  /\ S.weather_distribution[c] <=
                        Cardinality({o \in live : o.weather.main = c})
      ]_vars

\* A Summary built, and the rules evaluated, on the newer observation while a
\* soft-deleted one of the same city, inside the 7-day range, is in the store
C12_Witness ==
    /\ Populated
    /\ ret.built # <<>>
    /\ \E o \in observations :
          /\ o.city = ret.city /\ o.is_deleted
          /\ o.timestamp >= ret.built[1].generated_at - 7 * MinutesPerDay
    /\ hist # <<>>
    /\ hist[1].last.at = ret.built[1].generated_at
    /\ hist[1].last.weather # <<>>
    /\ \E o \in observations : o.is_deleted /\ o.timestamp < hist[1].last.weather[1].timestamp

\* C13: a soft sweep that follows a soft sweep with the same cutoff, with no
\* observation written in between, returns 0 and changes no observation.
C13_SoftSweepIdempotent ==
    [][(SoftSwept /\ ret'.prev # <<>>) =>
          /\ ret'.deleted_count = 0
          /\ observations' = observations]_vars

\* The second of two such sweeps, the first of which flagged an observation
C13_Witness ==
    /\ ret.op = "cleanup_old_data"
    /\ ret.prev # <<>>
    /\ ret.prev[1] > 0
    /\ ret.deleted_count = 0
    /\ \E o \in observations : o.is_deleted

\* C14: a soft sweep flags exactly the observations, of every city, that are
\* strictly older than the cutoff, returns the number of those not flagged
\* before, and changes no other observation, no alert and no Summary.
C14_SoftSweepFlagsExactlyTheOld ==
    [][SoftSwept =>
          /\ observations' = {IF o.timestamp < SweepCutoff
                               THEN [o EXCEPT !.is_deleted = TRUE] ELSE o : o \in observations}
          /\ ret'.deleted_count =
                Cardinality({o \in observations : /\ o.timestamp < SweepCutoff
                                                  /\ o.is_deleted = FALSE})
          /\ alerts' = alerts
          /\ summaries' = summaries]_vars

\* A sweep that flagged one observation and kept another, which lies on the
\* cutoff or after it, with alerts and a Summary in the store
C14_Witness ==
    /\ ret.op = "cleanup_old_data"
    /\ ret.deleted_count > 0
    /\ ret.written = nextId.observations
    /\ \E o \in observations : o.is_deleted /\ o.timestamp < ret.at - ret.days * MinutesPerDay
    /\ \E o \in observations :
          o.is_deleted = FALSE /\ o.timestamp >= ret.at - ret.days * MinutesPerDay
    /\ alerts # {}
    /\ summaries # {}

\* C15: a hard sweep removes exactly the observations strictly older than the
\* cutoff, soft-deleted or not, and returns their number; one that follows a
\* hard sweep with the same cutoff, with no write in between, removes none.
C15_HardSweepRemovesExactlyTheOld ==
    [][HardSwept =>
          /\ observations' = {o \in observations : o.timestamp >= SweepCutoff}
          /\ ret'.deleted_count =
                Cardinality({o \in observations : o.timestamp < SweepCutoff})
          /\ ret'.prev # <<>> => ret'.deleted_count = 0]_vars

\* A hard sweep, preceded by no other task, that removed an observation and
\* kept one
C15_Witness ==
    /\ ret.op = "hard_delete_old_data"
    /\ ret.after = "none"
    /\ ret.deleted_count > 0
    /\ ret.written = nextId.observations
    /\ \E o \in observations : o.timestamp >= ret.at - ret.days * MinutesPerDay

\* C16: in every step, an observation that stays in the store keeps every
\* field, except that is_deleted may go from false to true.
C16_ObservationsImmutable ==
    [][\A o \in observations : \A p \in observations' :
          p.id = o.id =>
             \/ p = o
             \/ o.is_deleted = FALSE /\ p = [o EXCEPT !.is_deleted = TRUE]]_vars

\* A store with a soft-deleted and a live observation after alerts were
\* created, one acknowledged, and a Summary saved
C16_Witness ==
    /\ \E o \in observations : o.is_deleted
    /\ \E o \in observations : o.is_deleted = FALSE
    /\ \E a \in alerts : a.is_acknowledged
    /\ summaries # {}

\* An alert older than the retention period of alerts is in the store
OldAlertStored ==
    \E a \in alerts : a.triggered_at < now - ALERT_RETENTION_DAYS * MinutesPerDay

\* C17, as stated: under the periodic schedule alone, an alert older than
\* alert_retention_days is eventually removed from the store.
C17_OldAlertsEventuallyDeleted == OldAlertStored ~> ~ OldAlertStored

-----------------------------------------------------------------------------
(* Properties of the task retries *)

\* The executions of a task
RunsOf(task) == {r \in runs : r.task = task}

\* C18, as stated: an execution of the ingestion task whose provider fetch
\* fails reports the failure, writes nothing to the TimeSeriesStore and
\* schedules a retry.
C18_FailedFetchSchedulesRetry ==
    [][\A r \in runs' \ runs :
          (r.task = "fetch_weather_data" /\ r.outcome = "error") =>
             /\ r.success = FALSE
             /\ observations' = observations
             /\ r.scheduled # {}]_vars

\* C18, amended: ... and schedules a retry unless it is already the third
\* retry, which ends in error and schedules none.
C18_FailedFetchSchedulesRetryUnlessExhausted ==
    [][\A r \in runs' \ runs :
          (r.task = "fetch_weather_data" /\ r.outcome = "error") =>
             /\ r.success = FALSE
             /\ observations' = observations
             /\ nextId' = nextId
             /\ r.retries < FetchMaxRetries =>
                   /\ r.scheduled # {}
                   /\ r.scheduled \subseteq messages'
                   /\ r.state = "RETRY"
             /\ r.retries >= FetchMaxRetries =>
                   /\ r.scheduled = {}
                   /\ r.state = "FAILURE"]_vars

\* The fetch of the scheduled run failed and a retry was sent, a retry wrote
\* an observation, and the fetch of a third retry failed
C18_Witness ==
    /\ \E r \in RunsOf("fetch_weather_data") :
          r.retries = 0 /\ r.outcome = "error" /\ r.scheduled # {}
    /\ \E r \in RunsOf("fetch_weather_data") :
          r.retries = FetchMaxRetries /\ r.outcome = "error" /\ r.scheduled = {}
    /\ observations # {}

\* C19, as stated: one scheduled ingestion is executed at most 4 times; a
\* failed attempt schedules at most one retry, retry number n with a
\* countdown of 60 * 2^n seconds; a failed third retry ends in error.
C19_IngestionRetriesBounded ==
    /\ Cardinality(RunsOf("fetch_weather_data")) <= 1 + FetchMaxRetries
    /\ \A r \in RunsOf("fetch_weather_data") :
          /\ Cardinality(r.scheduled) <= 1
          /\ \A m \in r.scheduled : m.countdown = 60 * 2 ^ r.retries
          /\ (r.retries = FetchMaxRetries /\ r.success = FALSE) => r.state = "FAILURE"

\* C20, as stated: one scheduled aggregation is executed at most 3 times; a
\* run whose save fails schedules at most one retry, with a countdown of 120
\* seconds; a failed second retry ends in error.
C20_AggregationRetriesBounded ==
    /\ Cardinality(RunsOf("populate_dashboard_summary")) <= 1 + PopulateMaxRetries
    /\ \A r \in RunsOf("populate_dashboard_summary") :
          /\ Cardinality(r.scheduled) <= 1
          /\ \A m \in r.scheduled : m.countdown = 120
          /\ (r.retries = PopulateMaxRetries /\ r.success = FALSE) => r.state = "FAILURE"

\* Clock advances of the evaluation under failures: inside the cooldown
\* window, and a minute more than the retention period
IsolationTickSteps == {30, 2881}

\* Ingestion for the scheduled city and its alert evaluation under store
\* failures; the sweeps leave the city without a readable observation
NextIsolation ==
    \/ \E d \in IsolationTickSteps : Tick(d)
    \/ \E r \in ResponsesFor(OPENWEATHER_CITY) : FetchAndStoreWeather(r)
    \/ CleanupOldData(DATA_RETENTION_DAYS)
    \/ HardDeleteOldData(DATA_RETENTION_DAYS)
    \/ \E latest_failed \in BOOLEAN : \E failed \in FailureCases :
          CheckAndCreateAlertsWithFailures(OPENWEATHER_CITY, latest_failed, failed)

SpecIsolation == Init /\ [][NextIsolation]_vars

\* Ingestion of provider bodies for either city, and the alert evaluation
NextBodies ==
    \/ \E d \in TickSteps : Tick(d)
    \/ \E city \in Cities : \E api_data \in Bodies : FetchAndStoreWeatherFor(city, api_data)
    \/ \E city \in Cities : CheckAndCreateAlerts(city)

SpecBodies == Init /\ [][NextBodies]_vars

\* Interleaved ingestions for every city, with the alert evaluation of every
\* city
NextIngestions ==
    \/ \E d \in TickSteps : Tick(d)
    \/ \E p \in Procs : \E city \in Cities : \E r \in ResponsesFor(city) :
          StartFetch(p, city, r)
    \/ \E p \in Procs : StoreFetched(p)
    \/ \E city \in Cities : CheckAndCreateAlerts(city)

SpecIngestions == Init /\ [][NextIngestions]_vars

-----------------------------------------------------------------------------
(* Properties of the acknowledgement *)

\* A step in which an acknowledgement ran
Acknowledged == ret' # ret /\ ret'.op = "acknowledge_alert"

\* C21, as stated: acknowledge(alert_id, by) on a stored, not yet acknowledged
\* alert sets is_acknowledged, acknowledged_at = now and acknowledged_by = by
\* on that alert only and reports success; on an id that matches no stored
\* alert it reports NotFound and changes no alert.
C21_AcknowledgeSetsThreeFields ==
    [][Acknowledged =>
          LET hit == {a \in alerts : a.id = ret'.alert_id} IN
          /\ \A a \in hit : a.is_acknowledged = FALSE =>
                /\ ret'.success
                /\ \E user \in Users :
                      /\ ret'.user = <<user>>
                      /\ alerts' = (alerts \ {a}) \cup
                                      {SetAcknowledgedBy([a EXCEPT !.is_acknowledged = TRUE,
                                                                   !.acknowledged_at = <<now>>],
                                                         user)}
          /\ hit = {} =>
                /\ ret'.success = FALSE
                /\ ret'.raised \in {"none", "NotFoundException"}
                /\ alerts' = alerts]_vars

\* C22, as stated: after a successful acknowledge, a later acknowledge of the
\* same id leaves the alert as the first one set it and is reported as a
\* failure; is_acknowledged never returns to false.
C22_AcknowledgedOnce ==
    [][/\ Acknowledged =>
             \A a \in alerts : (a.id = ret'.alert_id /\ a.is_acknowledged) =>
                /\ a \in alerts'
                /\ ret'.success = FALSE
       /\ \A a \in alerts : \A b \in alerts' :
             (b.id = a.id /\ a.is_acknowledged) => b.is_acknowledged]_vars

\* C29: an evaluation leaves a tripping rule alone when an alert of its city
\* and type, acknowledged or not, lies inside the cooldown window: after an
\* acknowledgement the evaluations inside the window of the acknowledged
\* alert create no alert of its city and type.
C29_AcknowledgedAlertKeepsCooldown ==
    [][hist' # hist =>
          \A a \in alerts :
             (/\ a.is_acknowledged
              /\ a.city = hist'[1].last.city
              /\ a.triggered_at >= now - ALERT_COOLDOWN_MINUTES) =>
                \A b \in alerts' \ alerts :
                   ~ (b.city = a.city /\ b.alert_type = a.alert_type)]_vars

\* An evaluation that read a tripping observation and created nothing, later
\* than the acknowledgement of an alert of a tripped rule, inside the cooldown
\* window of that alert
C29_Witness ==
    /\ hist # <<>>
    /\ hist[1].last.weather # <<>>
    /\ hist[1].last.ids = <<>>
    /\ \E a \in alerts :
          /\ a.is_acknowledged
          /\ a.city = hist[1].last.city
          /\ Trips(a.alert_type, hist[1].last.weather[1])
          /\ a.acknowledged_at[1] < hist[1].last.at
          /\ a.triggered_at >= hist[1].last.at - ALERT_COOLDOWN_MINUTES
    /\ \A a \in alerts : a.is_acknowledged

-----------------------------------------------------------------------------
(* Properties of the evaluation under store failures *)

\* A step in which check_and_create_alerts ran
Checked == ret' # ret /\ ret'.op = "check_and_create_alerts"

\* C23: check_and_create_alerts never raises.  A rule whose cooldown query or
\* insert fails creates no alert; every other rule creates its alert exactly
\* when it trips outside its cooldown, whichever rule failed before it; and
\* the ids returned are those of the alerts created.
C23_RuleFailuresIsolated ==
    [][Checked =>
          /\ ret'.raised = FALSE
          /\ {ret'.ids[i] : i \in DOMAIN ret'.ids} = {b.id : b \in alerts' \ alerts}
          /\ alerts \subseteq alerts'
          /\ ret'.weather # <<>> =>
                \A rule \in RuleTypes :
                   LET created == {b \in alerts' \ alerts :
                                      b.city = ret'.city /\ b.alert_type = rule} IN
                   IF ret'.failed[rule] # "none"
                   THEN created = {}
                   ELSE Cardinality(created) =
                           IF /\ Trips(rule, ret'.weather[1])
                              /\ ~ CheckRecentSimilarAlert(alerts, ret'.city, rule,
                                                           ALERT_COOLDOWN_MINUTES, now)
                           THEN 1 ELSE 0]_vars

\* An evaluation of the thunderstorm in which the insert of the first tripped
\* rule failed and the two other tripped rules created their alerts
C23_Witness ==
    /\ ret.op = "check_and_create_alerts"
    /\ ret.weather # <<>>
    /\ ret.failed["HIGH_TEMPERATURE"] = "insert"
    /\ Trips("HIGH_TEMPERATURE", ret.weather[1])
    /\ \A a \in alerts : a.alert_type # "HIGH_TEMPERATURE"
    /\ Len(ret.ids) = 2
    /\ \E a \in alerts : a.id = ret.ids[2] /\ a.alert_type = "EXTREME_WEATHER"

\* C24: when the city has no non-deleted observation, check_and_create_alerts
\* returns the empty sequence, raises nothing, and leaves the alerts as they
\* were.
C24_NoObservationNoAlert ==
    [][(Checked /\ \A o \in observations : o.city = ret'.city => o.is_deleted) =>
          /\ ret'.ids = <<>>
          /\ ret'.raised = FALSE
          /\ alerts' = alerts
          /\ nextId' = nextId]_vars

\* An evaluation, with no store failure, that found nothing to read: the one
\* observation of the city, on which alerts were created, is soft-deleted
C24_Witness ==
    /\ ret.op = "check_and_create_alerts"
    /\ ret.latest_failed = FALSE
    /\ \A rule \in RuleTypes : ret.failed[rule] = "none"
    /\ ret.weather = <<>>
    /\ ret.ids = <<>>
    /\ \E o \in observations : o.city = ret.city /\ o.is_deleted
    /\ \A o \in observations : o.city = ret.city => o.is_deleted
    /\ \E a \in alerts : a.city = ret.city

-----------------------------------------------------------------------------
(* Properties of the ingestion of provider bodies *)

\* A step in which fetch_and_store_weather ran on a provider body
Fetched == ret' # ret /\ ret'.op = "fetch_and_store_weather"

\* The value a numeric field of the body is stored with when the field is
\* missing or of the wrong type
StoredAs(value) == IF value.kind = "number" THEN value.v ELSE 0

\* C26, as stated: whichever numeric field of a successful response is missing
\* or of the wrong type, fetch_and_store writes one observation, with that
\* field 0, and does not fail.
C26_MalformedNumbersDefaultToZero ==
    [][Fetched =>
          /\ ret'.success
          /\ Cardinality(observations' \ observations) = 1
          /\ \A o \in observations' \ observations :
                /\ o.temperature.current = StoredAs(ret'.api_data.temp)
                /\ o.humidity = StoredAs(ret'.api_data.humidity)
                /\ o.pressure = StoredAs(ret'.api_data.pressure)]_vars

\* C30, as stated: the observation a successful fetch_and_store(city) writes
\* is stored under the requested city, and the following latest(city) finds
\* it.
C30_StoredUnderRequestedCity ==
    [][(Fetched /\ ret'.success) =>
          \A o \in observations' \ observations :
             /\ o.city = ret'.city
             /\ o \in GetLatestWeather(observations', ret'.city)]_vars

-----------------------------------------------------------------------------
(* Properties of interleaved ingestions *)

\* The documents of a collection that belong to a city
Own(store, city) == {d \in store : d.city = city}

-----------------------------------------------------------------------------
(* Properties of the cooldown window *)

\* C27: in an evaluation a tripped rule is in cooldown, and creates nothing,
\* exactly when an alert of its city and type with triggered_at >= now -
\* cooldown_minutes is stored (the bound included); otherwise it creates one
\* alert, also when the observation is the one an earlier alert was created
\* on.
C27_CooldownWindowInclusive ==
    [][(hist' # hist /\ hist'[1].last.weather # <<>>) =>
          \A rule \in RuleTypes :
             Trips(rule, hist'[1].last.weather[1]) =>
                LET city == hist'[1].last.city
                    recent == {a \in alerts : /\ a.city = city
                                              /\ a.alert_type = rule
                                              /\ a.triggered_at >= now - ALERT_COOLDOWN_MINUTES}
                    created == {b \in alerts' \ alerts :
                                   b.city = city /\ b.alert_type = rule} IN
                /\ recent # {} => created = {}
                /\ recent = {} =>
                      /\ Cardinality(created) = 1
                      /\ \A b \in created : b.triggered_at = now]_vars

\* Two evaluations of one observation, a minute more than the cooldown
\* apart: each created the alerts of the tripped rules
C27_Witness ==
    /\ hist # <<>>
    /\ hist[1].prev # <<>>
    /\ hist[1].last.weather # <<>>
    /\ hist[1].prev[1].weather = hist[1].last.weather
    /\ hist[1].last.at = hist[1].prev[1].at + ALERT_COOLDOWN_MINUTES + 1
    /\ hist[1].prev[1].ids # <<>>
    /\ hist[1].last.ids # <<>>
    /\ \A a \in alerts : \E b \in alerts :
          /\ b.alert_type = a.alert_type /\ b.city = a.city
          /\ b.triggered_at # a.triggered_at

-----------------------------------------------------------------------------
(* Properties of the trend buckets *)

\* The non-deleted observations of the built Summary's city in the `minutes`
\* before its generation
TrendWindow(minutes) ==
    {o \in observations : /\ o.city = ret.city
                          /\ o.is_deleted = FALSE
                          /\ o.timestamp >= ret.built[1].generated_at - minutes
                          /\ o.timestamp <= ret.built[1].generated_at}

\* The keys a trend shows are the n newest of the keys of the window: all of
\* them when there are at most n, and all but the oldest when there are n + 1
NewestKept(shown, keys, n) ==
    /\ shown \subseteq keys
    /\ Cardinality(shown) = IF Cardinality(keys) <= n THEN Cardinality(keys) ELSE n
    /\ \A k \in keys \ shown : \A h \in shown : k < h
    /\ Cardinality(keys) = n + 1 => keys \ shown = {MinOf(keys)}

TrendOfEightDates ==
    /\ Populated
    /\ ret.built # <<>>
    /\ Cardinality({DateKey(o.timestamp) : o \in TrendWindow(7 * MinutesPerDay)}) = 8
    /\ Len(ret.built[1].daily_trend) = 7

====
